---------------------------- MODULE Spec2Model ----------------------------
(***************************************************************************)
(* Verification model of the townscout native compute core:                *)
(*   - the K-best label store (insert_label_for_node),                     *)
(*   - the bucket (Dial) multi-source K-best engine (compute_chunk) and    *)
(*     its chunked parallel path with the sort-and-replay merge,           *)
(*   - the contraction-hierarchy query engine (CHGraph::run_phast).        *)
(* Arrays are modelled as functions over 0..len-1, as the code indexes     *)
(* them.                                                                   *)
(***************************************************************************)
EXTENDS Integers, Sequences, FiniteSets, TLC

VARIABLES
    n_nodes,            \* N = indptr.len() - 1
    indptr,             \* CSR row offsets, 0..N
    indices,            \* CSR destinations, 0..M-1
    w_sec,              \* CSR edge weights (u16), 0..M-1
    source_idxs,        \* anchor node ordinals, in call order
    k,                  \* K, labels kept per node
    cutoff_primary_s,   \* primary cutoff (u16)
    cutoff_overflow_s,  \* overflow cutoff (u16)
    threads,            \* requested thread count
    is_target,          \* optional target mask (None when no targets are given)
    targets_total,      \* length of the target array
    overflow_checks,    \* build profile: integer overflow panics (debug) or wraps (release)
    chunk,              \* state of the running compute_chunk loop (single-chunk path)
    api_pc,             \* position in kbest_multisource_bucket_csr
    par,                \* parallel path: results of the finished chunks by part
                        \* number, and the merge in progress
    ret,                \* the returned (best_src_idx, time_s) arrays, once api_pc = "returned"
    store,              \* label arrays driven directly by insert_label_for_node
    ins_node,           \* the node whose labels the insert calls of a run address
    ins_last,           \* the last insert call: its arguments and the store before it
    ch,                 \* the CHGraph: prepared graph, order, down_offsets, down_edges
    query,              \* the run_phast call: source, limit, dist, heap, position
    chapi,              \* a session on the Python API of CHGraph: to_bytes,
                        \* ch_from_bytes, query_all, query_subset
    csr_build,          \* a build_csr_from_arrays call: its inputs and its result
    h3agg,              \* an aggregate_h3_topk_precached call: inputs, partials, result
    wcc                 \* a weakly_connected_components call: BFS state and comp_id

graph_vars == <<n_nodes, indptr, indices, w_sec>>

call_vars == <<source_idxs, k, cutoff_primary_s, cutoff_overflow_s, threads,
               is_target, targets_total, overflow_checks>>

ins_vars == <<store, ins_node, ins_last>>

kbest_vars == <<chunk, api_pc, par, ret>>

ch_vars == <<ch, query>>

aux_vars == <<chapi, csr_build, h3agg, wcc>>

vars == <<graph_vars, call_vars, kbest_vars, ins_vars, ch_vars, aux_vars>>

-----------------------------------------------------------------------------
(* Program constants *)

UNREACHABLE == 65535

U16_MAX == 65535

U8_MAX == 255

U8_MOD == 256

(* Bounds of the label-store specification *)

InsMaxK == 2

InsMaxTime == 3

InsNodes == {0, 1}

InsAnchors == {0, 1, 2}

-----------------------------------------------------------------------------
(* Small helpers *)

\* value of a variable that the specification at hand does not use
Unused == <<>>

\* the calls outside the specification at hand have not been made
AuxIdle == chapi = Unused /\ csr_build = Unused /\ h3agg = Unused /\ wcc = Unused

\* Option values: None, and Some(x) as [some |-> TRUE, val |-> x]
None == [some |-> FALSE]

Some(x) == [some |-> TRUE, val |-> x]

Min2(a, b) == IF a < b THEN a ELSE b

SetMin(S) == CHOOSE x \in S : \A y \in S : x <= y

SetMax(S) == CHOOSE x \in S : \A y \in S : y <= x

\* u8::saturating_add(x, 1)
SatAddU8(x) == Min2(x + 1, U8_MAX)

\* (x as u8) + 1 in a release build: wraps modulo 2^8
WrapIncU8(x) == ((x % U8_MOD) + 1) % U8_MOD

\* an array with positions i and j exchanged
Swap(arr, i, j) == [arr EXCEPT ![i] = arr[j], ![j] = arr[i]]

-----------------------------------------------------------------------------
(* insert_label_for_node *)

\* bubble the element at position pos left while times are out of order
RECURSIVE bubble_left_inner(_, _, _, _)
bubble_left_inner(base, pos, best_src, time_s) ==
    IF pos > 0 /\ time_s[base + pos] < time_s[base + pos - 1]
    THEN bubble_left_inner(base, pos - 1,
                           Swap(best_src, base + pos, base + pos - 1),
                           Swap(time_s, base + pos, base + pos - 1))
    ELSE [best_src |-> best_src, time_s |-> time_s]

\* position of src_idx among the used slots of the node, or -1
FoundJ(base, used, src_idx, best_src) ==
    LET hits == {j \in 0..(used - 1) : best_src[base + j] = src_idx}
    IN  IF hits = {} THEN -1 ELSE SetMin(hits)

\* first used slot whose time is strictly larger than t, or used
InsertPos(base, used, t, time_s) ==
    LET later == {j \in 0..(used - 1) : t < time_s[base + j]}
    IN  IF later = {} THEN used ELSE SetMin(later)

\* the slot holding the largest time above cutoff_primary (first such slot
\* among equals), or -1 when there is none
WorstOverflowIdx(base, kk, time_s, cutoff_primary) ==
    LET over == {j \in 0..(kk - 1) : time_s[base + j] > cutoff_primary}
    IN  IF over = {} THEN -1
        ELSE SetMin({j \in over : \A i \in over : time_s[base + i] <= time_s[base + j]})

\* labels_used[node_i] = (used as u8) + 1 is reached with used = u8::MAX: a
\* build with overflow checks panics there, any other build wraps to 0
InsertPanics(node_i, kk, src_idx, best_src, labels_used) ==
    LET used == labels_used[node_i] IN
    /\ FoundJ(node_i * kk, used, src_idx, best_src) < 0
    /\ used < kk
    /\ used + 1 > U8_MAX
    /\ overflow_checks

\* Some(j): the anchor is already stored at slot j
InsertFound(base, j, node_i, t, best_src, time_s, labels_used, primary_count, cutoff_primary) ==
    LET old_t == time_s[base + j] IN
    IF t < old_t
    THEN LET b == bubble_left_inner(base, j, best_src, [time_s EXCEPT ![base + j] = t])
         IN  [best_src |-> b.best_src, time_s |-> b.time_s,
              labels_used |-> labels_used,
              primary_count |->
                  IF old_t > cutoff_primary /\ t <= cutoff_primary
                  THEN [primary_count EXCEPT ![node_i] = SatAddU8(@)]
                  ELSE primary_count]
    ELSE [best_src |-> best_src, time_s |-> time_s,
          labels_used |-> labels_used, primary_count |-> primary_count]

\* while j2 > ins { arr[base + j2] = arr[base + j2 - 1]; j2 -= 1; }
RECURSIVE ShiftRight(_, _, _, _)
ShiftRight(arr, base, j2, ins) ==
    IF j2 > ins
    THEN ShiftRight([arr EXCEPT ![base + j2] = arr[base + j2 - 1]], base, j2 - 1, ins)
    ELSE arr

\* None, used < k: insert into sorted position by shifting
InsertShift(base, used, node_i, src_idx, t, best_src, time_s, labels_used, primary_count, cutoff_primary) ==
    LET ins == InsertPos(base, used, t, time_s) IN
    [best_src |-> [ShiftRight(best_src, base, used, ins) EXCEPT ![base + ins] = src_idx],
     time_s |-> [ShiftRight(time_s, base, used, ins) EXCEPT ![base + ins] = t],
     labels_used |-> [labels_used EXCEPT ![node_i] = WrapIncU8(used)],
     primary_count |-> IF t <= cutoff_primary
                       THEN [primary_count EXCEPT ![node_i] = SatAddU8(@)]
                       ELSE primary_count]

\* variant of the primary replacement that counts every replacement as a
\* new primary label, whatever the class of the displaced label
InsertReplacePrimaryAlwaysCounts(base, kk, node_i, src_idx, t, best_src, time_s, labels_used, primary_count, cutoff_primary) ==
    LET worst_idx == kk - 1 IN
    IF t < time_s[base + worst_idx]
    THEN LET b == bubble_left_inner(base, worst_idx,
                                    [best_src EXCEPT ![base + worst_idx] = src_idx],
                                    [time_s EXCEPT ![base + worst_idx] = t])
         IN  [best_src |-> b.best_src, time_s |-> b.time_s,
              labels_used |-> labels_used,
              primary_count |-> [primary_count EXCEPT ![node_i] = SatAddU8(@)]]
    ELSE [best_src |-> best_src, time_s |-> time_s,
          labels_used |-> labels_used, primary_count |-> primary_count]

\* None, used == k, t <= cutoff_primary: replace the last slot if better
InsertReplacePrimary(base, kk, node_i, src_idx, t, best_src, time_s, labels_used, primary_count, cutoff_primary) ==
    LET worst_idx == kk - 1
        worst_t == time_s[base + worst_idx]
    IN  IF t < worst_t
        THEN LET b == bubble_left_inner(base, worst_idx,
                                        [best_src EXCEPT ![base + worst_idx] = src_idx],
                                        [time_s EXCEPT ![base + worst_idx] = t])
             IN  [best_src |-> b.best_src, time_s |-> b.time_s,
                  labels_used |-> labels_used,
                  primary_count |->
                      IF ~(worst_t <= cutoff_primary)
                      THEN [primary_count EXCEPT ![node_i] = SatAddU8(@)]
                      ELSE primary_count]
        ELSE [best_src |-> best_src, time_s |-> time_s,
              labels_used |-> labels_used, primary_count |-> primary_count]

\* variant of the overflow replacement that also replaces on equal times
InsertReplaceOverflowOnTie(base, kk, node_i, src_idx, t, best_src, time_s, labels_used, primary_count, cutoff_primary) ==
    LET widx == WorstOverflowIdx(base, kk, time_s, cutoff_primary) IN
    IF primary_count[node_i] < kk /\ widx >= 0 /\ t <= time_s[base + widx]
    THEN LET b == bubble_left_inner(base, widx,
                                    [best_src EXCEPT ![base + widx] = src_idx],
                                    [time_s EXCEPT ![base + widx] = t])
         IN  [best_src |-> b.best_src, time_s |-> b.time_s,
              labels_used |-> labels_used, primary_count |-> primary_count]
    ELSE [best_src |-> best_src, time_s |-> time_s,
          labels_used |-> labels_used, primary_count |-> primary_count]

\* None, used == k, t > cutoff_primary: replace the worst overflow slot only
InsertReplaceOverflow(base, kk, node_i, src_idx, t, best_src, time_s, labels_used, primary_count, cutoff_primary) ==
    LET widx == WorstOverflowIdx(base, kk, time_s, cutoff_primary) IN
    IF primary_count[node_i] < kk /\ widx >= 0 /\ t < time_s[base + widx]
    THEN LET b == bubble_left_inner(base, widx,
                                    [best_src EXCEPT ![base + widx] = src_idx],
                                    [time_s EXCEPT ![base + widx] = t])
         IN  [best_src |-> b.best_src, time_s |-> b.time_s,
              labels_used |-> labels_used, primary_count |-> primary_count]
    ELSE [best_src |-> best_src, time_s |-> time_s,
          labels_used |-> labels_used, primary_count |-> primary_count]

insert_label_for_node(node_i, kk, src_idx, t, best_src, time_s, labels_used, primary_count, cutoff_primary) ==
    LET base == node_i * kk
        used == labels_used[node_i]
        found_j == FoundJ(base, used, src_idx, best_src)
    IN  IF found_j >= 0
        THEN InsertFound(base, found_j, node_i, t, best_src, time_s, labels_used,
                         primary_count, cutoff_primary)
        ELSE IF used < kk
        THEN InsertShift(base, used, node_i, src_idx, t, best_src, time_s,
                         labels_used, primary_count, cutoff_primary)
        ELSE IF t <= cutoff_primary
        THEN InsertReplacePrimary(base, kk, node_i, src_idx, t, best_src, time_s,
                                  labels_used, primary_count, cutoff_primary)
        ELSE InsertReplaceOverflow(base, kk, node_i, src_idx, t, best_src, time_s,
                                   labels_used, primary_count, cutoff_primary)

-----------------------------------------------------------------------------
(* Label arrays as compute_chunk allocates them *)

EmptyStore(n, kk) ==
    [best_src |-> [i \in 0..(n * kk - 1) |-> -1],
     time_s |-> [i \in 0..(n * kk - 1) |-> UNREACHABLE],
     labels_used |-> [v \in 0..(n - 1) |-> 0],
     primary_count |-> [v \in 0..(n - 1) |-> 0]]

\* the K slots of node v as a sequence of <<time, anchor>> pairs
Row(st, kk, v) == [j \in 1..kk |-> <<st.time_s[v * kk + j - 1], st.best_src[v * kk + j - 1]>>]

-----------------------------------------------------------------------------
(* compute_chunk: the single-chunk bucket (Dial) engine *)

\* variant of the u16 addition that wraps around instead of saturating
WrapAddU16(a, b) == (a + b) % (U16_MAX + 1)

\* u16::saturating_add
SatAddU16(a, b) == Min2(a + b, U16_MAX)

\* min_out[ui]: minimal outgoing edge weight, 0 when the row is empty (or
\* when every weight equals u16::MAX)
MinOut(ui) ==
    LET ws == {w_sec[e] : e \in indptr[ui]..(indptr[ui + 1] - 1)}
        m == IF ws = {} THEN U16_MAX ELSE SetMin(ws)
    IN  IF m = U16_MAX THEN 0 ELSE m

\* buckets is kept as a map from the indices of the non-empty buckets to
\* their contents; every other bucket of 0..cutoff_overflow_s is empty
EmptyMap == [x \in {} |-> 0]

BucketAt(buckets, i) == IF i \in DOMAIN buckets THEN buckets[i] ELSE <<>>

BucketPush(buckets, i, item) ==
    IF i \in DOMAIN buckets
    THEN [buckets EXCEPT ![i] = Append(@, item)]
    ELSE [j \in DOMAIN buckets \cup {i} |-> IF j = i THEN <<item>> ELSE buckets[j]]

\* Vec::pop: drops the last element
BucketPop(buckets, i) ==
    IF Len(buckets[i]) = 1
    THEN [j \in DOMAIN buckets \ {i} |-> buckets[j]]
    ELSE [buckets EXCEPT ![i] = SubSeq(@, 1, Len(@) - 1)]

\* key of pair_best: (node << 32) | anchor, kept as a pair
PairKey(ui, src_idx) == <<ui, src_idx>>

\* variant of the per-pair prune that lets an equal distance through
PairBestBlocksStrict(pair_best, key, d) == key \in DOMAIN pair_best /\ d > pair_best[key]

PairBestBlocks(pair_best, key, d) == key \in DOMAIN pair_best /\ d >= pair_best[key]

PairBestPut(pair_best, key, d) ==
    [x \in DOMAIN pair_best \cup {key} |-> IF x = key THEN d ELSE pair_best[x]]

BucketsLen == cutoff_overflow_s + 1

\* state of compute_chunk before its loop, for the anchors srcs
ChunkInit(srcs) ==
    LET st == EmptyStore(n_nodes, k) IN
    [best_src_idx_out |-> st.best_src,
     time_s_out |-> st.time_s,
     labels_used |-> st.labels_used,
     primary_count |-> st.primary_count,
     buckets |-> IF srcs = <<>> THEN EmptyMap
                 ELSE [i \in {0} |-> [j \in 1..Len(srcs) |-> <<srcs[j], srcs[j]>>]],
     active |-> IF srcs = <<>> THEN {} ELSE {0},
     active_count |-> IF srcs = <<>> THEN 0 ELSE 1,
     cur_idx |-> 0,
     pair_best |-> EmptyMap,
     remaining_targets |-> targets_total,
     pops |-> 0,
     last_pop |-> <<>>,
     pc |-> "loop"]

\* the first bucket index after cur_idx, in ring order, whose active flag is set
NextActiveIdx(c) ==
    LET ahead == {i \in c.active : i > c.cur_idx}
    IN  IF ahead /= {} THEN SetMin(ahead) ELSE SetMin(c.active)

\* loop iterations that only move the cursor: the current bucket is not
\* active.  The run of such iterations up to the next active bucket is one
\* step; without any active bucket the loop would never leave this branch.
ChunkSkipInactive(c) ==
    IF c.active = {}
    THEN [c EXCEPT !.pc = "spin"]
    ELSE [c EXCEPT !.cur_idx = NextActiveIdx(c)]

\* variant of the empty-bucket skip that clears the flag without counting it
ChunkSkipEmptyKeepsCount(c) ==
    [c EXCEPT !.active = @ \ {c.cur_idx},
              !.cur_idx = (c.cur_idx + 1) % BucketsLen]

\* the current bucket is active and empty: deactivate it and move on
ChunkSkipEmpty(c) ==
    [c EXCEPT !.active = @ \ {c.cur_idx},
              !.active_count = @ - 1,
              !.cur_idx = (c.cur_idx + 1) % BucketsLen]

\* relax the outgoing edges e..hi-1 of the popped node, in CSR order
RECURSIVE RelaxEdges(_, _, _, _, _)
RelaxEdges(c, e, hi, du, src_idx) ==
    IF e >= hi THEN c
    ELSE LET v == indices[e]
             nd == SatAddU16(du, w_sec[e])
             skip == \/ nd > cutoff_overflow_s
                     \/ /\ c.primary_count[v] = k
                        /\ nd >= c.time_s_out[v * k + (k - 1)]
                     \/ PairBestBlocks(c.pair_best, PairKey(v, src_idx), nd)
         IN  IF skip THEN RelaxEdges(c, e + 1, hi, du, src_idx)
             ELSE RelaxEdges(
                    [c EXCEPT !.buckets = BucketPush(@, nd, <<v, src_idx>>),
                              !.active = @ \cup {nd},
                              !.active_count = IF nd \in c.active THEN @ ELSE @ + 1],
                    e + 1, hi, du, src_idx)

\* after processing one item, if the current bucket emptied, deactivate it
DeactivateIfEmpty(c) ==
    IF BucketAt(c.buckets, c.cur_idx) = <<>> /\ c.cur_idx \in c.active
    THEN [c EXCEPT !.active = @ \ {c.cur_idx}, !.active_count = @ - 1]
    ELSE c

\* variant of the saturation prune written as if a node had one slot: it
\* compares with the best stored label as soon as a primary label exists
SaturationPruneAsIfOneSlot(c, ui, du) ==
    /\ c.primary_count[ui] >= 1
    /\ LET wp == c.time_s_out[ui * k]
           m == MinOut(ui)
       IN  \/ du >= wp
           \/ m > 0 /\ SatAddU16(du, m) >= wp

\* node already holds K primary labels and this pop cannot improve it (or
\* its cheapest outgoing edge cannot improve a neighbour)
SaturationPrune(c, ui, du) ==
    /\ c.primary_count[ui] = k
    /\ LET wp == c.time_s_out[ui * k + (k - 1)]
           m == MinOut(ui)
       IN  \/ du >= wp
           \/ m > 0 /\ SatAddU16(du, m) >= wp

\* record the label and relax the neighbours of the popped pair
RecordAndRelax(c, ui, src_idx, du) ==
    LET before_used == c.labels_used[ui]
        ins == insert_label_for_node(ui, k, src_idx, du, c.best_src_idx_out,
                                     c.time_s_out, c.labels_used, c.primary_count,
                                     cutoff_primary_s)
        c1 == [c EXCEPT !.best_src_idx_out = ins.best_src,
                        !.time_s_out = ins.time_s,
                        !.labels_used = ins.labels_used,
                        !.primary_count = ins.primary_count]
        hit == before_used = 0 /\ is_target.some /\ is_target.val[ui] /= 0
        c2 == IF hit THEN [c1 EXCEPT !.remaining_targets = @ - 1] ELSE c1
    IN  IF InsertPanics(ui, k, src_idx, c.best_src_idx_out, c.labels_used)
        THEN [c EXCEPT !.pc = "panic"]
        ELSE IF hit /\ c2.remaining_targets = 0
        THEN [c2 EXCEPT !.pc = "done"]
        ELSE DeactivateIfEmpty(
                 RelaxEdges(c2, indptr[ui], indptr[ui + 1], du, src_idx))

\* one loop iteration that pops a pair from the current bucket
ChunkPop(c) ==
    LET item == c.buckets[c.cur_idx][Len(c.buckets[c.cur_idx])]
        ui == item[1]
        src_idx == item[2]
        du == c.cur_idx
        key == PairKey(ui, src_idx)
        c0 == [c EXCEPT !.buckets = BucketPop(@, c.cur_idx),
                        !.pops = @ + 1,
                        !.last_pop = <<ui, src_idx, du>>]
    IN  IF PairBestBlocks(c.pair_best, key, du) THEN c0
        ELSE LET c1 == [c0 EXCEPT !.pair_best = PairBestPut(@, key, du)]
             IN  IF SaturationPrune(c1, ui, du) THEN c1
                 ELSE RecordAndRelax(c1, ui, src_idx, du)

\* one evaluation of the loop condition and the iteration it starts
ChunkStep(c) ==
    IF c.active_count = 0 THEN [c EXCEPT !.pc = "done"]
    ELSE IF c.cur_idx \notin c.active THEN ChunkSkipInactive(c)
    ELSE IF BucketAt(c.buckets, c.cur_idx) = <<>> THEN ChunkSkipEmpty(c)
    ELSE ChunkPop(c)

\* compute_chunk run to its return
RECURSIVE RunChunkFrom(_)
RunChunkFrom(c) == IF c.pc /= "loop" THEN c ELSE RunChunkFrom(ChunkStep(c))

compute_chunk(srcs) == RunChunkFrom(ChunkInit(srcs))

-----------------------------------------------------------------------------
(* kbest_multisource_bucket_csr: path selection, chunking and merge *)

\* let t = if threads == 0 { 1 } else { threads }
ThreadsT == IF threads = 0 THEN 1 ELSE threads

\* variant of the heuristic that already goes parallel at 4 anchors per thread
ShouldParallelFromFour == ThreadsT > 1 /\ Len(source_idxs) >= ThreadsT * 4

\* heuristic: enough work per thread
ShouldParallel == ThreadsT > 1 /\ Len(source_idxs) > ThreadsT * 4

NumParts == Min2(ThreadsT * 2, Len(source_idxs))

\* parts[i..num_parts-1] as <<lo, hi>> pairs, the first starting at start
RECURSIVE PartsFrom(_, _)
PartsFrom(i, start) ==
    IF i >= NumParts THEN <<>>
    ELSE LET remain == Len(source_idxs) - start
             chunk_len == (remain + (NumParts - i) - 1) \div (NumParts - i)
         IN  <<<<start, start + chunk_len>>>> \o PartsFrom(i + 1, start + chunk_len)

Parts == PartsFrom(0, 0)

\* &source_idxs[lo..hi]
SourceSlice(part) == SubSeq(source_idxs, part[1] + 1, part[2])

\* the (best_src_idx, time_s) pair a chunk returns
ChunkResult(c) == [best_src |-> c.best_src_idx_out, time_s |-> c.time_s_out]

\* candidates of node_i gathered from results[ci..], slots j.. of the first
RECURSIVE GatherCandidates(_, _, _, _)
GatherCandidates(results, node_i, ci, j) ==
    IF ci > Len(results) THEN <<>>
    ELSE IF j >= k THEN GatherCandidates(results, node_i, ci + 1, 0)
    ELSE LET s == results[ci].best_src[node_i * k + j]
             t == results[ci].time_s[node_i * k + j]
             rest == GatherCandidates(results, node_i, ci, j + 1)
         IN  IF s < 0 \/ t >= UNREACHABLE THEN rest ELSE <<<<t, s>>>> \o rest

\* comparator of the merge: by time, then by src_idx
CandidateLess(a, b) == a[1] < b[1] \/ (a[1] = b[1] /\ a[2] < b[2])

\* candidates.sort_by(...): a stable sort
RECURSIVE SortCandidates(_)
SortCandidates(cs) ==
    IF cs = <<>> THEN <<>>
    ELSE LET i == SetMin({x \in 1..Len(cs) :
                     \A y \in 1..Len(cs) : ~CandidateLess(cs[y], cs[x])})
         IN  <<cs[i]>> \o SortCandidates(SubSeq(cs, 1, i - 1) \o SubSeq(cs, i + 1, Len(cs)))

\* replay insert_label_for_node over the sorted candidates of node_i
RECURSIVE ReplayCandidates(_, _, _)
ReplayCandidates(st, node_i, cs) ==
    IF cs = <<>> THEN st
    ELSE ReplayCandidates(
             insert_label_for_node(node_i, k, cs[1][2], cs[1][1], st.best_src, st.time_s,
                                   st.labels_used, st.primary_count, cutoff_primary_s),
             node_i, Tail(cs))

\* one iteration of the global merge loop
MergeNode(st, results, node_i) ==
    ReplayCandidates(st, node_i, SortCandidates(GatherCandidates(results, node_i, 1, 0)))

-----------------------------------------------------------------------------
(* Input graphs: CSR arrays with rows sorted by destination *)

MaxEdges == 2

\* label-store widths K of the calls
KChoices == {1, 2}

Nodes == {0, 1, 2}

Weights == {0, 1, 2}

CutoffPairs == {<<0, 1>>, <<1, 1>>, <<1, 3>>}

\* inputs at the upper end of the u16 range
WideWeights == {1, 65534, 65535}

WideCutoffPairs == {<<1, 65535>>, <<65535, 65535>>}

\* inputs of the parallel path
ParThreads == {2}

ParWeights == {0, 1}

ParCutoffPairs == {<<1, 2>>}

NodePairs == {p \in Nodes \X Nodes : p[1] /= p[2]}

\* the edges of E, a set of <<src, dst, weight>>, before <<u, v>> in (src, dst) order
EdgesBefore(E, u, v) == {x \in E : x[1] < u \/ (x[1] = u /\ x[2] < v)}

CsrIndptr(n, E) == [i \in 0..n |-> Cardinality({x \in E : x[1] < i})]

CsrIndices(E) ==
    [e \in 0..(Cardinality(E) - 1) |->
        (CHOOSE x \in E : Cardinality(EdgesBefore(E, x[1], x[2])) = e)[2]]

CsrWeights(E) ==
    [e \in 0..(Cardinality(E) - 1) |->
        (CHOOSE x \in E : Cardinality(EdgesBefore(E, x[1], x[2])) = e)[3]]

\* graphs with at most MaxEdges edges, at most one edge per (src, dst)
EdgeSets(W) ==
    UNION {{ {<<p[1], p[2], wf[p]>> : p \in P} : wf \in [P -> W] } :
              P \in {Q \in SUBSET NodePairs : Cardinality(Q) <= MaxEdges}}

\* graphs without three distinct edges
FewEdgeSets(W) ==
    UNION {{ {<<p[1], p[2], wf[p]>> : p \in P} : wf \in [P -> W] } :
              P \in {Q \in SUBSET NodePairs :
                        \A a, b, c \in Q : a = b \/ b = c \/ a = c}}

Injective(q) == \A i, j \in DOMAIN q : i /= j => q[i] /= q[j]

\* anchor lists: every list of up to two nodes, and the lists of three
\* distinct nodes
AnchorSeqs ==
    UNION {[1..n -> Nodes] : n \in 0..2} \cup {q \in [1..3 -> Nodes] : Injective(q)}

\* anchor lists long enough for the parallel path (more than 4 * t entries):
\* all nodes of a graph of 4 * t + 1 nodes in ascending or descending order,
\* and a base list of two or three distinct nodes repeated cyclically
ParNodeCount(t) == 4 * t + 1

CyclicSeq(b, n) == [i \in 1..n |-> b[((i - 1) % Len(b)) + 1]]

ParAnchorSeqs(t) ==
    LET bases == {q \in UNION {[1..n -> Nodes] : n \in 2..3} : Injective(q)}
        n == ParNodeCount(t)
    IN  {[i \in 1..n |-> i - 1], [i \in 1..n |-> n - i]}
            \cup {CyclicSeq(b, n) : b \in bases}

GraphInit(n, E) ==
    /\ n_nodes = n
    /\ indptr = CsrIndptr(n, E)
    /\ indices = CsrIndices(E)
    /\ w_sec = CsrWeights(E)

-----------------------------------------------------------------------------
(* Reference shortest-path distances on the input graph (exact integers) *)

NodeIds == 0..(n_nodes - 1)

\* the edges of the CSR arrays as <<src, dst, weight>>
CsrEdges ==
    UNION {{<<u, indices[e], w_sec[e]>> : e \in indptr[u]..(indptr[u + 1] - 1)} :
              u \in NodeIds}

InEdges(edges) == [v \in NodeIds |-> {x \in edges : x[2] = v}]

\* one round of relaxing every edge; -1 stands for no path found yet
RelaxAll(d, inn) ==
    [v \in NodeIds |->
        LET c == {d[v]} \cup {d[x[1]] + x[3] : x \in {y \in inn[v] : d[y[1]] >= 0}}
            fin == {x \in c : x >= 0}
        IN  IF fin = {} THEN -1 ELSE SetMin(fin)]

\* relaxation rounds until nothing changes (at most n_nodes - 1 of them)
RECURSIVE RelaxRounds(_, _, _)
RelaxRounds(d, inn, i) ==
    LET d2 == RelaxAll(d, inn)
    IN  IF i = 0 \/ d2 = d THEN d ELSE RelaxRounds(d2, inn, i - 1)

\* ShortestFrom(a, inn)[v]: length of a shortest path from a to v, -1 if none
ShortestFrom(a, inn) ==
    RelaxRounds([v \in NodeIds |-> IF v = a THEN 0 ELSE -1], inn, n_nodes - 1)

AnchorSet == {source_idxs[i] : i \in DOMAIN source_idxs}

\* the distance table of the anchors
AnchorDist ==
    LET inn == InEdges(CsrEdges) IN [a \in AnchorSet |-> ShortestFrom(a, inn)]

\* anchors whose shortest path to v is at most limit, in the table D
AnchorsWithin(D, v, limit) == {a \in DOMAIN D : D[a][v] >= 0 /\ D[a][v] <= limit}

-----------------------------------------------------------------------------
(* Specification of kbest_multisource_bucket_csr (no targets) *)

SmallInputs ==
    /\ \E E \in EdgeSets(Weights) : GraphInit(Cardinality(Nodes), E)
    /\ source_idxs \in AnchorSeqs
    /\ \E cp \in CutoffPairs : cutoff_primary_s = cp[1] /\ cutoff_overflow_s = cp[2]
    /\ threads = 1

WideInputs ==
    /\ \E E \in FewEdgeSets(WideWeights) : GraphInit(Cardinality(Nodes), E)
    /\ source_idxs \in {q \in AnchorSeqs : Len(q) <= 2 /\ Injective(q)}
    /\ \E cp \in WideCutoffPairs : cutoff_primary_s = cp[1] /\ cutoff_overflow_s = cp[2]
    /\ threads = 1

ParInputs ==
    /\ threads \in ParThreads
    /\ \E E \in FewEdgeSets(ParWeights) : GraphInit(ParNodeCount(threads), E)
    /\ source_idxs \in ParAnchorSeqs(threads)
    /\ \E cp \in ParCutoffPairs : cutoff_primary_s = cp[1] /\ cutoff_overflow_s = cp[2]

KbestInit ==
    /\ SmallInputs \/ WideInputs \/ ParInputs
    /\ k \in KChoices
    /\ overflow_checks = Unused
    /\ is_target = None /\ targets_total = 0
    /\ api_pc = IF ShouldParallel THEN "parallel" ELSE "single"
    /\ chunk = IF ShouldParallel THEN Unused ELSE ChunkInit(source_idxs)
    /\ par = IF ShouldParallel
             THEN [results |-> EmptyMap,
                   merged |-> EmptyStore(n_nodes, k),
                   node_i |-> 0]
             ELSE Unused
    /\ ret = None
    /\ store = Unused /\ ins_node = Unused /\ ins_last = Unused
    /\ ch = Unused /\ query = Unused
    /\ AuxIdle

ChunkLoopExit ==
    /\ api_pc = "single"
    /\ chunk.pc = "loop"
    /\ chunk.active_count = 0
    /\ chunk' = ChunkStep(chunk)
    /\ UNCHANGED <<graph_vars, call_vars, aux_vars, api_pc, par, ret, ins_vars, ch_vars>>

ChunkLoopSkip ==
    /\ api_pc = "single"
    /\ chunk.pc = "loop"
    /\ chunk.active_count > 0
    /\ ~(chunk.cur_idx \in chunk.active /\ BucketAt(chunk.buckets, chunk.cur_idx) /= <<>>)
    /\ chunk' = ChunkStep(chunk)
    /\ UNCHANGED <<graph_vars, call_vars, aux_vars, api_pc, par, ret, ins_vars, ch_vars>>

ChunkLoopPop ==
    /\ api_pc = "single"
    /\ chunk.pc = "loop"
    /\ chunk.active_count > 0
    /\ chunk.cur_idx \in chunk.active
    /\ BucketAt(chunk.buckets, chunk.cur_idx) /= <<>>
    /\ chunk' = ChunkStep(chunk)
    /\ UNCHANGED <<graph_vars, call_vars, aux_vars, api_pc, par, ret, ins_vars, ch_vars>>

\* single-chunk path: copy the chunk's arrays into the returned arrays
ReturnSingle ==
    /\ api_pc = "single"
    /\ chunk.pc = "done"
    /\ ret' = ChunkResult(chunk)
    /\ api_pc' = "returned"
    /\ UNCHANGED <<graph_vars, call_vars, aux_vars, chunk, par, ins_vars, ch_vars>>

\* a pool worker runs compute_chunk on part i to its end; chunks complete
\* in any order and are collected in part order
ParChunkFinish(i) ==
    /\ api_pc = "parallel"
    /\ i \notin DOMAIN par.results
    /\ LET c == compute_chunk(SourceSlice(Parts[i])) IN
           /\ c.pc = "done"
           /\ par' = [par EXCEPT !.results =
                          [j \in DOMAIN par.results \cup {i} |->
                              IF j = i THEN ChunkResult(c) ELSE par.results[j]]]
    /\ UNCHANGED <<graph_vars, call_vars, aux_vars, chunk, api_pc, ret, ins_vars, ch_vars>>

ParAllFinished == DOMAIN par.results = 1..Len(Parts)

\* global merge, one node per step
ParMergeNode ==
    /\ api_pc = "parallel"
    /\ ParAllFinished
    /\ par.node_i < n_nodes
    /\ par' = [par EXCEPT !.merged = MergeNode(@, par.results, par.node_i),
                          !.node_i = @ + 1]
    /\ UNCHANGED <<graph_vars, call_vars, aux_vars, chunk, api_pc, ret, ins_vars, ch_vars>>

ReturnParallel ==
    /\ api_pc = "parallel"
    /\ ParAllFinished
    /\ par.node_i = n_nodes
    /\ ret' = [best_src |-> par.merged.best_src, time_s |-> par.merged.time_s]
    /\ api_pc' = "returned"
    /\ UNCHANGED <<graph_vars, call_vars, aux_vars, chunk, par, ins_vars, ch_vars>>

KbestNext ==
    \/ ChunkLoopExit
    \/ ChunkLoopSkip
    \/ ChunkLoopPop
    \/ ReturnSingle
    \/ \E i \in 1..Len(Parts) : ParChunkFinish(i)
    \/ ParMergeNode
    \/ ReturnParallel

SpecKbest == KbestInit /\ [][KbestNext]_vars

-----------------------------------------------------------------------------
(* Specification of kbest_multisource_bucket_csr with K beyond the range of
   the u8 label counters: a star of LargeK anchors around node 0, which is
   an anchor itself; the last anchor is one second away, the others zero *)

LargeK == U8_MAX + 1

LargeCutoffPairs == {<<0, 1>>, <<1, 1>>}

LargeInit ==
    /\ n_nodes = LargeK + 1
    /\ indptr = [i \in 0..(LargeK + 1) |-> IF i = 0 THEN 0 ELSE i - 1]
    /\ indices = [e \in 0..(LargeK - 1) |-> 0]
    /\ w_sec = [e \in 0..(LargeK - 1) |-> IF e = LargeK - 1 THEN 1 ELSE 0]
    /\ source_idxs = [i \in 1..(LargeK + 1) |-> i - 1]
    /\ k = LargeK
    /\ \E cp \in LargeCutoffPairs : cutoff_primary_s = cp[1] /\ cutoff_overflow_s = cp[2]
    /\ threads = 1
    /\ overflow_checks \in BOOLEAN
    /\ is_target = None /\ targets_total = 0
    /\ api_pc = "single"
    /\ chunk = ChunkInit(source_idxs)
    /\ par = Unused
    /\ ret = None
    /\ store = Unused /\ ins_node = Unused /\ ins_last = Unused
    /\ ch = Unused /\ query = Unused
    /\ AuxIdle

\* the panic of compute_chunk unwinds out of the call: nothing is returned
ChunkPanic ==
    /\ api_pc = "single"
    /\ chunk.pc = "panic"
    /\ api_pc' = "panicked"
    /\ UNCHANGED <<graph_vars, call_vars, aux_vars, chunk, par, ret, ins_vars, ch_vars>>

LargeNext ==
    \/ ChunkLoopExit
    \/ ChunkLoopSkip
    \/ ChunkLoopPop
    \/ ChunkPanic
    \/ ReturnSingle

SpecKbestLargeK == LargeInit /\ [][LargeNext]_vars

-----------------------------------------------------------------------------
(* Specification of the label store: any sequence of insert calls on a node *)

NoCall == [node |-> -1]

InsInit ==
    /\ k \in 1..InsMaxK
    /\ cutoff_primary_s \in 0..InsMaxTime
    /\ cutoff_overflow_s = InsMaxTime
    /\ n_nodes = Cardinality(InsNodes)
    /\ indptr = Unused /\ indices = Unused /\ w_sec = Unused
    /\ source_idxs = Unused /\ threads = 1
    /\ is_target = None /\ targets_total = 0
    /\ overflow_checks = Unused
    /\ chunk = Unused /\ api_pc = Unused /\ par = Unused /\ ret = Unused
    /\ store = EmptyStore(Cardinality(InsNodes), k)
    /\ ins_node \in InsNodes
    /\ ins_last = NoCall
    /\ ch = Unused /\ query = Unused
    /\ AuxIdle

InsertCall(node_i, src_idx, t) ==
    /\ store' = insert_label_for_node(node_i, k, src_idx, t, store.best_src,
                                      store.time_s, store.labels_used,
                                      store.primary_count, cutoff_primary_s)
    /\ ins_last' = [node |-> node_i, src |-> src_idx, t |-> t, before |-> store]
    /\ UNCHANGED <<graph_vars, call_vars, aux_vars, kbest_vars, ins_node, ch_vars>>

InsNext ==
    \E src_idx \in InsAnchors, t \in 0..InsMaxTime :
        InsertCall(ins_node, src_idx, t)

SpecInsert == InsInit /\ [][InsNext]_vars

-----------------------------------------------------------------------------
(* u32 values, kept as two 16-bit limbs <<hi, lo>> standing for
   hi * 2^16 + lo, compared and added as the unsigned 32-bit value *)

LIMB == U16_MAX + 1

INF_U32 == <<U16_MAX, U16_MAX>>

\* the u32 of a natural number below 2^31
U32(x) == <<x \div LIMB, x % LIMB>>

LtU32(a, b) == a[1] < b[1] \/ (a[1] = b[1] /\ a[2] < b[2])

\* u32::saturating_add
SatAddU32(a, b) ==
    LET lo == a[2] + b[2]
        hi == a[1] + b[1] + (lo \div LIMB)
    IN  IF hi >= LIMB THEN INF_U32 ELSE <<hi, lo % LIMB>>

-----------------------------------------------------------------------------
(* build_input_graph: the edges handed to the preparer, in CSR order *)

ArrLen(a) == Cardinality(DOMAIN a)

Max2(a, b) == IF a > b THEN a ELSE b

\* the array (0-based) of a sequence
ArrayOf(q) == [i \in 0..(Len(q) - 1) |-> q[i + 1]]

\* an i64 of the model's range cast `as usize`: <<0, x>> for x >= 0 and
\* <<1, x>>, which stands for 2^64 + x, for x < 0
AsUsize(x) == IF x < 0 THEN <<1, x>> ELSE <<0, x>>

LtUsize(a, b) == a[1] < b[1] \/ (a[1] = b[1] /\ a[2] < b[2])

\* variant of the inner loop that hands the raw weight to the preparer
RECURSIVE AddRowEdgesRawWeight(_, _, _, _, _, _)
AddRowEdgesRawWeight(g, u, idx, hi, ix, ws) ==
    IF ~LtUsize(idx, hi) THEN g
    ELSE AddRowEdgesRawWeight(IF ix[idx[2]] < 0 THEN g
                              ELSE Append(g, <<u, ix[idx[2]], ws[idx[2]]>>),
                              u, <<idx[1], idx[2] + 1>>, hi, ix, ws)

\* for idx in lo..hi: skip negative destinations, add (u, v, max(w, 1))
RECURSIVE AddRowEdges(_, _, _, _, _, _)
AddRowEdges(g, u, idx, hi, ix, ws) ==
    IF ~LtUsize(idx, hi) THEN g
    ELSE AddRowEdges(IF ix[idx[2]] < 0 THEN g
                     ELSE Append(g, <<u, ix[idx[2]], Max2(ws[idx[2]], 1)>>),
                     u, <<idx[1], idx[2] + 1>>, hi, ix, ws)

\* for u in 0..n: lo and hi cast to usize, only hi tested against the length
RECURSIVE AddRows(_, _, _, _, _, _)
AddRows(g, u, n, ip, ix, ws) ==
    IF u >= n THEN [ok |-> TRUE, edges |-> g]
    ELSE IF LtUsize(AsUsize(ArrLen(ix)), AsUsize(ip[u + 1]))
    THEN [ok |-> FALSE, err |-> "indptr out of bounds for indices"]
    ELSE AddRows(AddRowEdges(g, u, AsUsize(ip[u]), AsUsize(ip[u + 1]), ix, ws),
                 u + 1, n, ip, ix, ws)

build_input_graph(ip, ix, ws) ==
    IF ArrLen(ip) = 0
    THEN [ok |-> FALSE, err |-> "indptr must be non-empty"]
    ELSE IF ArrLen(ix) /= ArrLen(ws)
    THEN [ok |-> FALSE, err |-> "indices and weights must match in length"]
    ELSE AddRows(<<>>, 0, ArrLen(ip) - 1, ip, ix, ws)

-----------------------------------------------------------------------------
(* The external preparer, from its contract: the nodes are contracted in
   some order (their rank); a node's edges to and from the nodes not yet
   contracted are emitted as its upward and backward edges; contracting a
   node adds a shortcut u -> w for every pair of remaining neighbours whose
   path through the node is shorter than the edge u -> w, unless (witness
   search) another path of the remaining graph is as short *)

SeqRange(q) == {q[i] : i \in DOMAIN q}

\* the elements of a set of integers in ascending order
RECURSIVE SetToSeq(_)
SetToSeq(S) == IF S = {} THEN <<>> ELSE <<SetMin(S)>> \o SetToSeq(S \ {SetMin(S)})

\* the frozen input graph: no loops, the smallest weight of each (u, v)
FrozenGraph(edges) ==
    LET es == {e \in SeqRange(edges) : e[1] /= e[2]}
    IN  [p \in {<<e[1], e[2]>> : e \in es} |->
            SetMin({e[3] : e \in {x \in es : x[1] = p[1] /\ x[2] = p[2]}})]

\* shortest paths from u in G without node x
ShortestAvoiding(G, x, u) ==
    ShortestFrom(u, [v \in NodeIds |->
                        {<<p[1], p[2], G[p]>> :
                             p \in {q \in DOMAIN G : q[2] = v /\ q[1] /= x /\ q[2] /= x}}])

ShortcutNeeded(G, x, u, w, witness) ==
    LET c == G[<<u, x>>] + G[<<x, w>>] IN
    /\ <<u, w>> \in DOMAIN G => c < G[<<u, w>>]
    /\ ~(witness /\ LET d == ShortestAvoiding(G, x, u)[w] IN d >= 0 /\ d <= c)

\* the remaining graph after contracting node x
Contract(G, x, witness) ==
    LET ins == {p[1] : p \in {q \in DOMAIN G : q[2] = x}}
        outs == {p[2] : p \in {q \in DOMAIN G : q[1] = x}}
        short == {p \in ins \X outs :
                     p[1] /= p[2] /\ ShortcutNeeded(G, x, p[1], p[2], witness)}
        keep == {p \in DOMAIN G : p[1] /= x /\ p[2] /= x}
    IN  [p \in keep \cup short |->
            IF p \in short THEN G[<<p[1], x>>] + G[<<x, p[2]>>] ELSE G[p]]

ChEdge(base, adj, w) == [base_node |-> base, adj_node |-> adj, weight |-> U32(w)]

\* the prepared graph after the nodes order[r + 1 ..] are contracted too
RECURSIVE PrepareFrom(_, _, _, _, _, _, _)
PrepareFrom(r, G, order, witness, fwd, bwd, first) ==
    IF r = Len(order)
    THEN [ranks |-> [node \in SeqRange(order) |->
                        (CHOOSE i \in DOMAIN order : order[i] = node) - 1],
          first_edge_ids_fwd |-> ArrayOf(first),
          edges_fwd |-> ArrayOf(fwd),
          edges_bwd |-> ArrayOf(bwd)]
    ELSE LET x == order[r + 1]
             outs == SetToSeq({p[2] : p \in {q \in DOMAIN G : q[1] = x}})
             ins == SetToSeq({p[1] : p \in {q \in DOMAIN G : q[2] = x}})
             fwd2 == fwd \o [i \in DOMAIN outs |-> ChEdge(x, outs[i], G[<<x, outs[i]>>])]
             bwd2 == bwd \o [i \in DOMAIN ins |-> ChEdge(x, ins[i], G[<<ins[i], x>>])]
         IN  PrepareFrom(r + 1, Contract(G, x, witness), order, witness,
                         fwd2, bwd2, Append(first, Len(fwd2)))

\* fast_paths::prepare followed by FastGraph32::new
Prepare(edges, order, witness) ==
    PrepareFrom(0, FrozenGraph(edges), order, witness, <<>>, <<>>, <<0>>)

-----------------------------------------------------------------------------
(* CHGraph::from_fast_graph32 *)

\* order[r] = node for every node whose rank r is in range, written in node
\* order over a table of zeros
ChOrder(graph) ==
    [r \in 0..(ArrLen(graph.ranks) - 1) |->
        LET S == {node \in DOMAIN graph.ranks : graph.ranks[node] = r}
        IN  IF S = {} THEN 0 ELSE SetMax(S)]

\* down_offsets[i]: the number of backward edges whose adj node is below i
ChDownOffsets(graph) ==
    [i \in 0..ArrLen(graph.ranks) |->
        Cardinality({e \in DOMAIN graph.edges_bwd : graph.edges_bwd[e].adj_node < i})]

\* the segment of adj holds (base, weight) of its backward edges with base in
\* range, in edge order; a slot counted but not written stays (0, 0)
ChDownEdges(graph) ==
    LET n == ArrLen(graph.ranks)
        off == ChDownOffsets(graph)
        placed(adj) == SetToSeq({e \in DOMAIN graph.edges_bwd :
                                    /\ graph.edges_bwd[e].adj_node = adj
                                    /\ graph.edges_bwd[e].base_node < n})
    IN  [pos \in 0..(off[n] - 1) |->
            LET adj == CHOOSE u \in 0..(n - 1) : off[u] <= pos /\ pos < off[u + 1]
                q == placed(adj)
                j == pos - off[adj] + 1
            IN  IF j <= Len(q)
                THEN <<graph.edges_bwd[q[j]].base_node, graph.edges_bwd[q[j]].weight>>
                ELSE <<0, U32(0)>>]

from_fast_graph32(graph) ==
    [graph |-> graph,
     order |-> ChOrder(graph),
     down_offsets |-> ChDownOffsets(graph),
     down_edges |-> ChDownEdges(graph)]

node_count(self) == ArrLen(self.graph.ranks)

-----------------------------------------------------------------------------
(* CHGraph::run_phast *)

\* state of a query before run_phast is entered
PhastCall(source, limit) ==
    [pc |-> "call", source |-> source, limit |-> limit,
     dist |-> <<>>, heap |-> {}, i |-> 0]

\* dist = vec![INF; n]; an out-of-range source returns it as it is
PhastStart(qs, self) ==
    LET n == node_count(self)
        dist == [v \in 0..(n - 1) |-> INF_U32]
    IN  IF qs.source >= n
        THEN [qs EXCEPT !.pc = "done", !.dist = dist]
        ELSE [qs EXCEPT !.pc = "upward",
                        !.dist = [dist EXCEPT ![qs.source] = U32(0)],
                        !.heap = {<<U32(0), qs.source>>}]

\* BinaryHeap<(Reverse<u32>, usize)>::pop: the smallest distance, the
\* largest node among equal distances
HeapTop(heap) ==
    CHOOSE h \in heap :
        \A g \in heap : LtU32(h[1], g[1]) \/ (h[1] = g[1] /\ h[2] >= g[2])

\* variant of the upward relaxation without the test against the limit
RECURSIVE RelaxUpUnlimited(_, _, _, _, _)
RelaxUpUnlimited(qs, self, idx, end, du) ==
    IF idx >= end THEN qs
    ELSE LET edge == self.graph.edges_fwd[idx]
             v == edge.adj_node
             nd == SatAddU32(du, edge.weight)
         IN  IF LtU32(nd, qs.dist[v])
             THEN RelaxUpUnlimited([qs EXCEPT !.dist[v] = nd, !.heap = @ \cup {<<nd, v>>}],
                                   self, idx + 1, end, du)
             ELSE RelaxUpUnlimited(qs, self, idx + 1, end, du)

\* relax the upward edges idx..end-1 of the popped node
RECURSIVE RelaxUp(_, _, _, _, _)
RelaxUp(qs, self, idx, end, du) ==
    IF idx >= end THEN qs
    ELSE LET edge == self.graph.edges_fwd[idx]
             v == edge.adj_node
             nd == SatAddU32(du, edge.weight)
         IN  IF LtU32(qs.limit, nd) THEN RelaxUp(qs, self, idx + 1, end, du)
             ELSE IF LtU32(nd, qs.dist[v])
             THEN RelaxUp([qs EXCEPT !.dist[v] = nd, !.heap = @ \cup {<<nd, v>>}],
                          self, idx + 1, end, du)
             ELSE RelaxUp(qs, self, idx + 1, end, du)

\* one iteration of the upward search
UpwardPop(qs, self) ==
    LET top == HeapTop(qs.heap)
        du == top[1]
        u == top[2]
        q1 == [qs EXCEPT !.heap = @ \ {top}]
        rank_u == self.graph.ranks[u]
    IN  IF LtU32(qs.limit, du) THEN q1
        ELSE IF du /= qs.dist[u] THEN q1
        ELSE IF rank_u >= ArrLen(self.graph.first_edge_ids_fwd) - 1 THEN q1
        ELSE RelaxUp(q1, self, self.graph.first_edge_ids_fwd[rank_u],
                     self.graph.first_edge_ids_fwd[rank_u + 1], du)

\* variant of the downward relaxation without the test against the limit
RECURSIVE RelaxDownUnlimited(_, _, _, _, _)
RelaxDownUnlimited(qs, self, idx, end, du) ==
    IF idx >= end THEN qs
    ELSE LET v == self.down_edges[idx][1]
             nd == SatAddU32(du, self.down_edges[idx][2])
         IN  IF LtU32(nd, qs.dist[v])
             THEN RelaxDownUnlimited([qs EXCEPT !.dist[v] = nd], self, idx + 1, end, du)
             ELSE RelaxDownUnlimited(qs, self, idx + 1, end, du)

\* variant of the downward relaxation that stops after the first edge
RelaxDownFirstEdge(qs, self, idx, end, du) ==
    IF idx >= end THEN qs
    ELSE LET v == self.down_edges[idx][1]
             nd == SatAddU32(du, self.down_edges[idx][2])
         IN  IF ~LtU32(qs.limit, nd) /\ LtU32(nd, qs.dist[v])
             THEN [qs EXCEPT !.dist[v] = nd]
             ELSE qs

\* relax the downward edges idx..end-1 of the swept node
RECURSIVE RelaxDown(_, _, _, _, _)
RelaxDown(qs, self, idx, end, du) ==
    IF idx >= end THEN qs
    ELSE LET v == self.down_edges[idx][1]
             nd == SatAddU32(du, self.down_edges[idx][2])
         IN  IF LtU32(qs.limit, nd) THEN RelaxDown(qs, self, idx + 1, end, du)
             ELSE IF LtU32(nd, qs.dist[v])
             THEN RelaxDown([qs EXCEPT !.dist[v] = nd], self, idx + 1, end, du)
             ELSE RelaxDown(qs, self, idx + 1, end, du)

\* variant of the sweep position that walks the rank table forwards
SweptNodeAscending(qs, self) == self.order[qs.i]

\* the node the sweep visits after qs.i nodes: order.iter().rev()
SweptNode(qs, self) == self.order[node_count(self) - 1 - qs.i]

\* one iteration of the downward sweep
SweepNode(qs, self) ==
    LET u == SweptNode(qs, self)
        du == qs.dist[u]
        q1 == [qs EXCEPT !.i = @ + 1]
    IN  IF du = INF_U32 THEN q1
        ELSE RelaxDown(q1, self, self.down_offsets[u], self.down_offsets[u + 1], du)

-----------------------------------------------------------------------------
(* Specification of the CH engine: ch_build_from_csr, then one query *)

\* the graphs on four nodes made of edges of the diamond 0 -> {1, 2} -> 3
\* and of two more edges
DiamondEdges == {<<0, 1, 3>>, <<0, 2, 4>>, <<1, 3, 2>>, <<2, 3, 1>>}

DiamondUniverse == DiamondEdges \cup {<<3, 0, 1>>, <<1, 2, 1>>}

ChWeights == {0, 1, 2}

\* query limits: none (u32::MAX), and a small one
ChLimits == {INF_U32, U32(3)}

Perms(n) == {p \in [1..n -> 0..(n - 1)] : Injective(p)}

ChGraphInputs ==
    \/ \E E \in EdgeSets(ChWeights) : GraphInit(Cardinality(Nodes), E)
    \/ \E E \in SUBSET DiamondUniverse : GraphInit(Cardinality(Nodes) + 1, E)

\* ch_build_from_csr, for some contraction order of the preparer
ChInit ==
    /\ ChGraphInputs
    /\ LET input == build_input_graph(indptr, indices, w_sec) IN
           /\ input.ok
           /\ \E order \in Perms(n_nodes), witness \in BOOLEAN :
                  \E fast32 \in {Prepare(input.edges, order, witness)} :
                      ch = from_fast_graph32(fast32)
    /\ \E source \in 0..n_nodes, limit \in ChLimits : query = PhastCall(source, limit)
    /\ source_idxs = Unused /\ k = Unused
    /\ cutoff_primary_s = Unused /\ cutoff_overflow_s = Unused /\ threads = Unused
    /\ is_target = Unused /\ targets_total = Unused /\ overflow_checks = Unused
    /\ chunk = Unused /\ api_pc = Unused /\ par = Unused /\ ret = Unused
    /\ store = Unused /\ ins_node = Unused /\ ins_last = Unused
    /\ AuxIdle

QueryStart ==
    /\ query.pc = "call"
    /\ query' = PhastStart(query, ch)
    /\ UNCHANGED <<graph_vars, call_vars, aux_vars, kbest_vars, ins_vars, ch>>

\* while let Some(..) = heap.pop()
UpwardStep ==
    /\ query.pc = "upward"
    /\ query.heap /= {}
    /\ query' = UpwardPop(query, ch)
    /\ UNCHANGED <<graph_vars, call_vars, aux_vars, kbest_vars, ins_vars, ch>>

UpwardDone ==
    /\ query.pc = "upward"
    /\ query.heap = {}
    /\ query' = [query EXCEPT !.pc = "sweep"]
    /\ UNCHANGED <<graph_vars, call_vars, aux_vars, kbest_vars, ins_vars, ch>>

SweepStep ==
    /\ query.pc = "sweep"
    /\ query.i < node_count(ch)
    /\ query' = SweepNode(query, ch)
    /\ UNCHANGED <<graph_vars, call_vars, aux_vars, kbest_vars, ins_vars, ch>>

\* run_phast returns dist
SweepDone ==
    /\ query.pc = "sweep"
    /\ query.i = node_count(ch)
    /\ query' = [query EXCEPT !.pc = "done"]
    /\ UNCHANGED <<graph_vars, call_vars, aux_vars, kbest_vars, ins_vars, ch>>

ChNext ==
    \/ QueryStart
    \/ UpwardStep
    \/ UpwardDone
    \/ SweepStep
    \/ SweepDone

SpecCH == ChInit /\ [][ChNext]_vars

-----------------------------------------------------------------------------
(* The Python API of CHGraph: to_bytes, ch_from_bytes, query_all,
   query_subset *)

\* one step of run_phast from the query state qs
PhastStep(qs, self) ==
    IF qs.pc = "call" THEN PhastStart(qs, self)
    ELSE IF qs.pc = "upward"
    THEN IF qs.heap /= {} THEN UpwardPop(qs, self) ELSE [qs EXCEPT !.pc = "sweep"]
    ELSE IF qs.i < node_count(self) THEN SweepNode(qs, self)
    ELSE [qs EXCEPT !.pc = "done"]

RECURSIVE RunPhastFrom(_, _)
RunPhastFrom(qs, self) ==
    IF qs.pc = "done" THEN qs ELSE RunPhastFrom(PhastStep(qs, self), self)

\* run_phast run to its return value
run_phast(self, source, limit) == RunPhastFrom(PhastCall(source, limit), self).dist

\* limit.unwrap_or(u32::MAX)
UnwrapLimit(limit) == IF limit.some THEN limit.val ELSE INF_U32

query_all(self, source, limit) == run_phast(self, source, UnwrapLimit(limit))

\* variant of the projection that counts a negative target from the end
SubsetEntryFromEnd(dist, raw) ==
    LET j == IF raw < 0 THEN ArrLen(dist) + raw ELSE raw
    IN  IF j >= 0 /\ j < ArrLen(dist) THEN dist[j] ELSE INF_U32

\* the value pushed for the target raw
SubsetEntry(dist, raw) ==
    IF raw < 0 THEN INF_U32
    ELSE IF raw < ArrLen(dist) THEN dist[raw]
    ELSE INF_U32

query_subset(self, source, targets, limit) ==
    LET dist == run_phast(self, source, UnwrapLimit(limit))
    IN  [i \in DOMAIN targets |-> SubsetEntry(dist, targets[i])]

-----------------------------------------------------------------------------
(* bincode (fixed-width little-endian integers, u64 length prefixes) of the
   prepared graph: ranks, edges_fwd, first_edge_ids_fwd, edges_bwd; an edge
   is (base_node, adj_node, weight) *)

\* the four bytes of a u32, least significant first
LeBytes(x) == <<x[2] % U8_MOD, x[2] \div U8_MOD, x[1] % U8_MOD, x[1] \div U8_MOD>>

\* the u32 at bytes pos .. pos + 3
ReadU32(b, pos) == <<b[pos + 3] * U8_MOD + b[pos + 2], b[pos + 1] * U8_MOD + b[pos]>>

\* a u32 of the model's index range as an integer
ToInt(x) == x[1] * LIMB + x[2]

RECURSIVE Flatten(_)
Flatten(qq) == IF qq = <<>> THEN <<>> ELSE Head(qq) \o Flatten(Tail(qq))

EncLen(n) == LeBytes(U32(n)) \o <<0, 0, 0, 0>>

EncVecU32(arr) ==
    EncLen(ArrLen(arr)) \o Flatten([i \in 1..ArrLen(arr) |-> LeBytes(U32(arr[i - 1]))])

EncEdge(e) == LeBytes(U32(e.base_node)) \o LeBytes(U32(e.adj_node)) \o LeBytes(e.weight)

EncVecEdge(arr) ==
    EncLen(ArrLen(arr)) \o Flatten([i \in 1..ArrLen(arr) |-> EncEdge(arr[i - 1])])

bincode_serialize(graph) ==
    EncVecU32(graph.ranks) \o EncVecEdge(graph.edges_fwd)
        \o EncVecU32(graph.first_edge_ids_fwd) \o EncVecEdge(graph.edges_bwd)

\* a vector at pos: its length prefix, then n items of width bytes each;
\* first is the position of item 0, next the position after the vector
DecLen(b, pos, width) ==
    IF pos + 7 > Len(b) THEN [ok |-> FALSE]
    ELSE LET n == ToInt(ReadU32(b, pos)) IN
         IF pos + 8 + n * width - 1 > Len(b) THEN [ok |-> FALSE]
         ELSE [ok |-> TRUE, n |-> n, first |-> pos + 8, next |-> pos + 8 + n * width]

DecVecU32(b, pos) ==
    LET h == DecLen(b, pos, 4) IN
    IF ~h.ok THEN h
    ELSE [ok |-> TRUE, next |-> h.next,
          val |-> [i \in 0..(h.n - 1) |-> ToInt(ReadU32(b, h.first + 4 * i))]]

DecVecEdge(b, pos) ==
    LET h == DecLen(b, pos, 12) IN
    IF ~h.ok THEN h
    ELSE [ok |-> TRUE, next |-> h.next,
          val |-> [i \in 0..(h.n - 1) |->
                      [base_node |-> ToInt(ReadU32(b, h.first + 12 * i)),
                       adj_node |-> ToInt(ReadU32(b, h.first + 12 * i + 4)),
                       weight |-> ReadU32(b, h.first + 12 * i + 8)]]]

bincode_deserialize(b) ==
    LET rk == DecVecU32(b, 1) IN
    IF ~rk.ok THEN [ok |-> FALSE]
    ELSE LET ef == DecVecEdge(b, rk.next) IN
    IF ~ef.ok THEN [ok |-> FALSE]
    ELSE LET fe == DecVecU32(b, ef.next) IN
    IF ~fe.ok THEN [ok |-> FALSE]
    ELSE LET eb == DecVecEdge(b, fe.next) IN
    IF ~eb.ok THEN [ok |-> FALSE]
    ELSE [ok |-> TRUE,
          val |-> [ranks |-> rk.val, first_edge_ids_fwd |-> fe.val,
                   edges_fwd |-> ef.val, edges_bwd |-> eb.val]]

\* CHGraph::to_bytes
to_bytes(self) == bincode_serialize(self.graph)

\* variant of ch_from_bytes that leaves the downward index empty
ch_from_bytes_without_index(data) ==
    LET r == bincode_deserialize(data) IN
    IF r.ok
    THEN [ok |-> TRUE,
          val |-> [graph |-> r.val,
                   order |-> ChOrder(r.val),
                   down_offsets |-> [i \in 0..ArrLen(r.val.ranks) |-> 0],
                   down_edges |-> <<>>]]
    ELSE [ok |-> FALSE, err |-> "failed to deserialize CH graph"]

ch_from_bytes(data) ==
    LET r == bincode_deserialize(data) IN
    IF r.ok
    THEN [ok |-> TRUE, val |-> from_fast_graph32(r.val)]
    ELSE [ok |-> FALSE, err |-> "failed to deserialize CH graph"]

-----------------------------------------------------------------------------
(* Specification of a session on the CHGraph API: build, to_bytes,
   ch_from_bytes, then queries on the built and on the loaded graph *)

\* limit arguments: absent, and a small one
ApiLimits == {None, Some(U32(3))}

\* target lists: up to two targets among a negative sentinel, node 0 and the
\* first index out of range, and a list that repeats the last node
ApiTargets ==
    LET T == {-1, 0, n_nodes}
    IN  UNION {[1..m -> T] : m \in 0..2} \cup {<<n_nodes - 1, 0, n_nodes - 1>>}

ApiInit ==
    /\ ChGraphInputs
    /\ LET input == build_input_graph(indptr, indices, w_sec) IN
           /\ input.ok
           /\ \E order \in Perms(n_nodes), witness \in BOOLEAN :
                  \E fast32 \in {Prepare(input.edges, order, witness)} :
                      ch = from_fast_graph32(fast32)
    /\ chapi = [pc |-> "built"]
    /\ query = Unused
    /\ source_idxs = Unused /\ k = Unused
    /\ cutoff_primary_s = Unused /\ cutoff_overflow_s = Unused /\ threads = Unused
    /\ is_target = Unused /\ targets_total = Unused /\ overflow_checks = Unused
    /\ chunk = Unused /\ api_pc = Unused /\ par = Unused /\ ret = Unused
    /\ store = Unused /\ ins_node = Unused /\ ins_last = Unused
    /\ csr_build = Unused /\ h3agg = Unused /\ wcc = Unused

ApiRest == <<graph_vars, call_vars, kbest_vars, ins_vars, ch_vars, csr_build, h3agg, wcc>>

ApiToBytes ==
    /\ chapi.pc = "built"
    /\ chapi' = [pc |-> "serialized", blob |-> to_bytes(ch)]
    /\ UNCHANGED ApiRest

ApiFromBytes ==
    /\ chapi.pc = "serialized"
    /\ \E r \in {ch_from_bytes(chapi.blob)} :
           chapi' = [pc |-> IF r.ok THEN "loaded" ELSE "failed",
                     blob |-> chapi.blob, loaded |-> r]
    /\ UNCHANGED ApiRest

\* the same query_all and query_subset calls on both graphs
ApiQuery ==
    /\ chapi.pc = "loaded"
    /\ \E source \in 0..n_nodes, limit \in ApiLimits, targets \in ApiTargets :
           \E g2 \in {chapi.loaded.val} :
               chapi' = [pc |-> "queried", blob |-> chapi.blob, loaded |-> chapi.loaded,
                         source |-> source, limit |-> limit, targets |-> targets,
                         all_built |-> query_all(ch, source, limit),
                         all_loaded |-> query_all(g2, source, limit),
                         sub_built |-> query_subset(ch, source, targets, limit),
                         sub_loaded |-> query_subset(g2, source, targets, limit)]
    /\ UNCHANGED ApiRest

ApiNext ==
    \/ ApiToBytes
    \/ ApiFromBytes
    \/ ApiQuery

SpecChApi == ApiInit /\ [][ApiNext]_vars

-----------------------------------------------------------------------------
(* Specification of ch_from_bytes on bytes that decode to a prepared graph
   whose backward edges may name nodes out of range: bincode accepts any
   well-formed encoding, and from_fast_graph32 is applied to what it yields *)

LoadNodes == 2

LoadMaxEdges == 2

\* backward edges with endpoints in 0..LoadNodes, the last value out of range
LoadEdges == {ChEdge(b, a, 1) : b \in 0..LoadNodes, a \in 0..LoadNodes}

LoadGraphs ==
    {[ranks |-> ArrayOf(r),
      first_edge_ids_fwd |-> [i \in 0..LoadNodes |-> 0],
      edges_fwd |-> <<>>,
      edges_bwd |-> ArrayOf(es)] :
        r \in Perms(LoadNodes),
        es \in UNION {[1..m -> LoadEdges] : m \in 0..LoadMaxEdges}}

LoadInit ==
    /\ n_nodes = LoadNodes
    /\ indptr = Unused /\ indices = Unused /\ w_sec = Unused
    /\ \E g \in LoadGraphs : chapi = [pc |-> "serialized", blob |-> bincode_serialize(g)]
    /\ ch = Unused /\ query = Unused
    /\ source_idxs = Unused /\ k = Unused
    /\ cutoff_primary_s = Unused /\ cutoff_overflow_s = Unused /\ threads = Unused
    /\ is_target = Unused /\ targets_total = Unused /\ overflow_checks = Unused
    /\ chunk = Unused /\ api_pc = Unused /\ par = Unused /\ ret = Unused
    /\ store = Unused /\ ins_node = Unused /\ ins_last = Unused
    /\ csr_build = Unused /\ h3agg = Unused /\ wcc = Unused

\* query_all on the loaded graph
LoadQuery ==
    /\ chapi.pc = "loaded"
    /\ \E source \in 0..n_nodes, limit \in ApiLimits :
           chapi' = [pc |-> "queried", blob |-> chapi.blob, loaded |-> chapi.loaded,
                     source |-> source, limit |-> limit,
                     all_loaded |-> query_all(chapi.loaded.val, source, limit)]
    /\ UNCHANGED ApiRest

LoadNext ==
    \/ ApiFromBytes
    \/ LoadQuery

SpecChLoad == LoadInit /\ [][LoadNext]_vars

-----------------------------------------------------------------------------
(* Specification of ch_build_from_csr on raw arrays, well formed or not,
   followed by one unlimited query_all on the graph it built *)

ChBuildMaxRows == 2

ChBuildMaxEdges == 2

\* indptr entries: a negative one, and values up to one past the longest
\* indices array
ChBuildIndptrValues == -1..(ChBuildMaxEdges + 1)

ChBuildWeights == {0, 2}

\* the arrays of at most maxlen entries drawn from V
ArraysOver(V, maxlen) == UNION {{ArrayOf(q) : q \in [1..m -> V]} : m \in 0..maxlen}

\* destinations are -1 or a row of indptr
ChBuildInit ==
    /\ indptr \in ArraysOver(ChBuildIndptrValues, ChBuildMaxRows + 1)
    /\ n_nodes = Max2(ArrLen(indptr) - 1, 0)
    /\ indices \in ArraysOver(-1..Max2(n_nodes - 1, 0), ChBuildMaxEdges)
    /\ w_sec \in ArraysOver(ChBuildWeights, ChBuildMaxEdges)
    /\ chapi = [pc |-> "build_call"]
    /\ ch = Unused /\ query = Unused
    /\ source_idxs = Unused /\ k = Unused
    /\ cutoff_primary_s = Unused /\ cutoff_overflow_s = Unused /\ threads = Unused
    /\ is_target = Unused /\ targets_total = Unused /\ overflow_checks = Unused
    /\ chunk = Unused /\ api_pc = Unused /\ par = Unused /\ ret = Unused
    /\ store = Unused /\ ins_node = Unused /\ ins_last = Unused
    /\ csr_build = Unused /\ h3agg = Unused /\ wcc = Unused

ChBuildRest == <<graph_vars, call_vars, kbest_vars, ins_vars, query, csr_build, h3agg, wcc>>

\* ch_build_from_csr: build_input_graph(..)?, then the preparer for some
\* contraction order, then from_fast_graph32
ApiBuild ==
    /\ chapi.pc = "build_call"
    /\ \E input \in {build_input_graph(indptr, indices, w_sec)} :
           IF input.ok
           THEN /\ \E order \in Perms(n_nodes), witness \in BOOLEAN :
                       ch' = from_fast_graph32(Prepare(input.edges, order, witness))
                /\ chapi' = [pc |-> "build_ok", edges |-> input.edges]
           ELSE /\ ch' = ch
                /\ chapi' = [pc |-> "build_failed", err |-> input.err]
    /\ UNCHANGED ChBuildRest

\* query_all(source, None) on the built graph
ChBuildQuery ==
    /\ chapi.pc = "build_ok"
    /\ \E source \in 0..n_nodes :
           chapi' = [pc |-> "build_queried", edges |-> chapi.edges, source |-> source,
                     all |-> query_all(ch, source, None)]
    /\ UNCHANGED <<ch, ChBuildRest>>

ChBuildNext ==
    \/ ApiBuild
    \/ ChBuildQuery

SpecChBuild == ChBuildInit /\ [][ChBuildNext]_vars

-----------------------------------------------------------------------------
(* The heap-based kbest_multisource_csr (one cutoff).  A BinaryHeap is kept
   as the ascending sequence of its tuples: the main queue pq of
   Reverse((time, node, src)) pops its head, a node's max-heap of
   (time, src) peeks at its last element *)

\* the order of tuples: by the first component that differs
LexLess(x, y) == \E i \in DOMAIN x : x[i] < y[i] /\ \A j \in 1..(i - 1) : x[j] = y[j]

\* BinaryHeap::push
HeapPush(h, x) ==
    LET n == Cardinality({i \in DOMAIN h : ~LexLess(x, h[i])})
    IN  SubSeq(h, 1, n) \o <<x>> \o SubSeq(h, n + 1, Len(h))

\* the K-best heap of a node after the popped (time, src) is offered to it
HeapRecord(bests, time, src, kk) ==
    IF Len(bests) < kk THEN HeapPush(bests, <<time, src>>)
    ELSE IF bests = <<>> THEN bests
    ELSE IF time < bests[Len(bests)][1]
    THEN HeapPush(SubSeq(bests, 1, Len(bests) - 1), <<time, src>>)
    ELSE bests

\* for i in i..end-1: push (time + weight, v, src) unless at or past the
\* cutoff, or v is full and the new time is not below its worst
RECURSIVE HeapRelax(_, _, _, _, _, _, _, _)
HeapRelax(pq, best, i, end, time, src, kk, cutoff_s) ==
    IF i >= end THEN pq
    ELSE LET v_idx == indices[i]
             new_time == WrapAddU16(time, w_sec[i])
             v_bests == best[v_idx]
         IN  IF new_time < cutoff_s
                    /\ ~(Len(v_bests) = kk /\ new_time >= v_bests[Len(v_bests)][1])
             THEN HeapRelax(HeapPush(pq, <<new_time, v_idx, src>>), best,
                            i + 1, end, time, src, kk, cutoff_s)
             ELSE HeapRelax(pq, best, i + 1, end, time, src, kk, cutoff_s)

\* pq after `for &src_idx in source_idxs { pq.push(..) }`
RECURSIVE HeapSeed(_, _, _)
HeapSeed(pq, srcs, p) ==
    IF p > Len(srcs) THEN pq
    ELSE HeapSeed(HeapPush(pq, <<0, srcs[p], srcs[p]>>), srcs, p + 1)

\* one iteration of `while let Some(..) = pq.pop()`
HeapIteration(st, kk, cutoff_s) ==
    LET time == st.pq[1][1]
        u_idx == st.pq[1][2]
        src_idx == st.pq[1][3]
        pq1 == Tail(st.pq)
    IN  IF time > cutoff_s THEN [st EXCEPT !.pq = pq1]
        ELSE LET best1 == [st.best_results EXCEPT
                              ![u_idx] = HeapRecord(@, time, src_idx, kk)]
             IN  [st EXCEPT !.best_results = best1,
                            !.pq = HeapRelax(pq1, best1, indptr[u_idx], indptr[u_idx + 1],
                                             time, src_idx, kk, cutoff_s)]

\* the output arrays: the sentinels, then heap.into_sorted_vec() per row
HeapOutput(best, kk) ==
    [best_src |-> [idx \in 0..(n_nodes * kk - 1) |->
                      LET row == best[idx \div kk] IN
                      IF idx % kk < Len(row) THEN row[(idx % kk) + 1][2] ELSE -1],
     time_s |-> [idx \in 0..(n_nodes * kk - 1) |->
                    LET row == best[idx \div kk] IN
                    IF idx % kk < Len(row) THEN row[(idx % kk) + 1][1] ELSE UNREACHABLE]]

\* graphs on three nodes: up to MaxEdges edges, and the parts of a triangle
\* with a direct and a two-edge path from node 0 to node 1
HeapTriangle == {<<0, 1, 3>>, <<0, 2, 1>>, <<2, 1, 1>>}

HeapCutoffs == {1, 3, 4}

\* calls with distinct in-range sources; cutoff_primary_s holds cutoff_s
HeapInit ==
    /\ \/ \E E \in EdgeSets(Weights) : GraphInit(Cardinality(Nodes), E)
       \/ \E E \in SUBSET HeapTriangle : GraphInit(Cardinality(Nodes), E)
    /\ source_idxs \in {q \in AnchorSeqs : Injective(q)}
    /\ k \in KChoices
    /\ cutoff_primary_s \in HeapCutoffs
    /\ cutoff_overflow_s = Unused /\ threads = 1
    /\ is_target = Unused /\ targets_total = Unused /\ overflow_checks = Unused
    /\ chunk = [best_results |-> [v \in NodeIds |-> <<>>],
                pq |-> HeapSeed(<<>>, source_idxs, 1)]
    /\ api_pc = "heap_loop" /\ par = Unused /\ ret = None
    /\ store = Unused /\ ins_node = Unused /\ ins_last = Unused
    /\ ch = Unused /\ query = Unused
    /\ AuxIdle

HeapRest == <<graph_vars, call_vars, ins_vars, ch_vars, aux_vars, par>>

HeapPop ==
    /\ api_pc = "heap_loop"
    /\ chunk.pq /= <<>>
    /\ chunk' = HeapIteration(chunk, k, cutoff_primary_s)
    /\ UNCHANGED <<api_pc, ret, HeapRest>>

\* the queue is empty: the output arrays are filled and returned
HeapReturn ==
    /\ api_pc = "heap_loop"
    /\ chunk.pq = <<>>
    /\ api_pc' = "heap_returned"
    /\ ret' = Some(HeapOutput(chunk.best_results, k))
    /\ UNCHANGED <<chunk, HeapRest>>

HeapNext ==
    \/ HeapPop
    \/ HeapReturn

SpecKbestHeap == HeapInit /\ [][HeapNext]_vars

-----------------------------------------------------------------------------
(* build_csr_from_arrays *)

\* map.insert(nid, i) in array order: the last position of an id wins
NodeMap(node_ids) ==
    [id \in SeqRange(node_ids) |->
        SetMax({i \in DOMAIN node_ids : node_ids[i] = id}) - 1]

\* the directed edges <<src, dst, weight>> pushed for the input edges i..
RECURSIVE DirectedEdges(_, _, _, _, _, _, _)
DirectedEdges(acc, i, map, eu, ev, ow, w) ==
    IF i > Len(eu) THEN acc
    ELSE IF eu[i] \notin DOMAIN map \/ ev[i] \notin DOMAIN map
    THEN DirectedEdges(acc, i + 1, map, eu, ev, ow, w)
    ELSE LET one == Append(acc, <<map[eu[i]], map[ev[i]], w[i]>>)
             both == IF ow[i] = 0 THEN Append(one, <<map[ev[i]], map[eu[i]], w[i]>>)
                     ELSE one
         IN  DirectedEdges(both, i + 1, map, eu, ev, ow, w)

KeyLess(a, b) == a[1] < b[1] \/ (a[1] = b[1] /\ a[2] < b[2])

\* the orders sort_unstable_by may leave: every arrangement of the positions
\* S of edges that is non-decreasing in (src, dst); equal keys in any order
RECURSIVE SortedOrders(_, _)
SortedOrders(edges, S) ==
    IF S = {} THEN {<<>>}
    ELSE LET firsts == {i \in S : \A j \in S : ~KeyLess(edges[j], edges[i])}
         IN  UNION {{<<i>> \o rest : rest \in SortedOrders(edges, S \ {i})} : i \in firsts}

\* variant of the gather that leaves the weights in their pushed order
CsrGatherKeysOnly(edges, order) ==
    [src_s |-> [e \in 0..(Len(order) - 1) |-> edges[order[e + 1]][1]],
     dst_s |-> [e \in 0..(Len(order) - 1) |-> edges[order[e + 1]][2]],
     w_s |-> [e \in 0..(Len(order) - 1) |-> edges[e + 1][3]]]

\* src_s, dst_s, w_s: the three columns gathered through order
CsrGather(edges, order) ==
    [src_s |-> [e \in 0..(Len(order) - 1) |-> edges[order[e + 1]][1]],
     dst_s |-> [e \in 0..(Len(order) - 1) |-> edges[order[e + 1]][2]],
     w_s |-> [e \in 0..(Len(order) - 1) |-> edges[order[e + 1]][3]]]

\* variant of the row offsets that counts the sources up to and including i
CountsIndptrInclusive(n, src_s) ==
    [i \in 0..n |-> Cardinality({e \in DOMAIN src_s : src_s[e] <= i})]

\* indptr[i] = counts[0] + .. + counts[i - 1]
CountsIndptr(n, src_s) ==
    [i \in 0..n |-> Cardinality({e \in DOMAIN src_s : src_s[e] < i})]

-----------------------------------------------------------------------------
(* Specification of build_csr_from_arrays *)

MaxInputEdges == 2

\* node id arrays: empty, two nodes in either order, and a repeated id
BuildNodeIds == {<<>>, <<10, 20>>, <<20, 10>>, <<10, 20, 10>>}

\* edge endpoints: two ids that may be nodes and one that never is
BuildEndpoints == {10, 20, 99}

BuildWeights == {1, 2}

\* the four edge arrays; some calls pass a oneway array of another length
BuildInit ==
    /\ \E ids \in BuildNodeIds, m \in 0..MaxInputEdges :
       \E eu \in [1..m -> BuildEndpoints], ev \in [1..m -> BuildEndpoints],
          w \in [1..m -> BuildWeights] :
       \E ow \in [1..m -> {0, 1}] \cup (IF m = 1 THEN {<<>>} ELSE {}) :
           csr_build = [pc |-> "call", node_ids |-> ids, edge_u |-> eu, edge_v |-> ev,
                        oneway |-> ow, w_sec |-> w]
    /\ n_nodes = Unused /\ indptr = Unused /\ indices = Unused /\ w_sec = Unused
    /\ source_idxs = Unused /\ k = Unused
    /\ cutoff_primary_s = Unused /\ cutoff_overflow_s = Unused /\ threads = Unused
    /\ is_target = Unused /\ targets_total = Unused /\ overflow_checks = Unused
    /\ chunk = Unused /\ api_pc = Unused /\ par = Unused /\ ret = Unused
    /\ store = Unused /\ ins_node = Unused /\ ins_last = Unused
    /\ ch = Unused /\ query = Unused
    /\ chapi = Unused /\ h3agg = Unused /\ wcc = Unused

BuildRest == <<graph_vars, call_vars, kbest_vars, ins_vars, ch_vars, chapi, h3agg, wcc>>

\* the length check fails: Err("edge arrays must have the same length")
BuildReject ==
    /\ csr_build.pc = "call"
    /\ \/ Len(csr_build.edge_u) /= Len(csr_build.edge_v)
       \/ Len(csr_build.edge_u) /= Len(csr_build.oneway)
       \/ Len(csr_build.edge_u) /= Len(csr_build.w_sec)
    /\ csr_build' = [csr_build EXCEPT !.pc = "error"]
    /\ UNCHANGED BuildRest

\* the node map and the directed edges
BuildEmit ==
    /\ csr_build.pc = "call"
    /\ Len(csr_build.edge_u) = Len(csr_build.edge_v)
    /\ Len(csr_build.edge_u) = Len(csr_build.oneway)
    /\ Len(csr_build.edge_u) = Len(csr_build.w_sec)
    /\ \E map \in {NodeMap(csr_build.node_ids)} :
           csr_build' = [pc |-> "emitted", node_ids |-> csr_build.node_ids,
                         edge_u |-> csr_build.edge_u, edge_v |-> csr_build.edge_v,
                         oneway |-> csr_build.oneway, w_sec |-> csr_build.w_sec,
                         edges |-> DirectedEdges(<<>>, 1, map, csr_build.edge_u,
                                                 csr_build.edge_v, csr_build.oneway,
                                                 csr_build.w_sec)]
    /\ UNCHANGED BuildRest

\* the sort by (src, dst), the gather, the row offsets and the return
BuildSortReturn ==
    /\ csr_build.pc = "emitted"
    /\ \E order \in SortedOrders(csr_build.edges, DOMAIN csr_build.edges) :
       \E g \in {CsrGather(csr_build.edges, order)} :
           csr_build' = [pc |-> "returned", node_ids |-> csr_build.node_ids,
                         edge_u |-> csr_build.edge_u, edge_v |-> csr_build.edge_v,
                         oneway |-> csr_build.oneway, w_sec |-> csr_build.w_sec,
                         edges |-> csr_build.edges,
                         out_indptr |-> CountsIndptr(Len(csr_build.node_ids), g.src_s),
                         out_indices |-> g.dst_s,
                         out_w |-> g.w_s]
    /\ UNCHANGED BuildRest

BuildNext ==
    \/ BuildReject
    \/ BuildEmit
    \/ BuildSortReturn

SpecBuildCsr == BuildInit /\ [][BuildNext]_vars

-----------------------------------------------------------------------------
(* Specification of kbest_multisource_bucket_csr on the single-chunk path
   with a target array *)

TargetWeights == {1, 2}

TargetCutoffPairs == {<<1, 3>>}

\* target arrays of one or two node indices, repeats included
TargetArrays == UNION {[1..n -> Nodes] : n \in 1..2}

\* the mask over the nodes: 1 for the entries of arr that are below n
TargetMask(arr, n) ==
    [ui \in 0..(n - 1) |-> IF \E i \in DOMAIN arr : arr[i] = ui THEN 1 ELSE 0]

TargetsInit ==
    /\ \E E \in EdgeSets(TargetWeights) : GraphInit(Cardinality(Nodes), E)
    /\ source_idxs \in {q \in AnchorSeqs : Len(q) <= 2}
    /\ \E cp \in TargetCutoffPairs : cutoff_primary_s = cp[1] /\ cutoff_overflow_s = cp[2]
    /\ threads = 1
    /\ k \in KChoices
    /\ overflow_checks = Unused
    /\ \E arr \in TargetArrays :
           /\ is_target = Some(TargetMask(arr, n_nodes))
           /\ targets_total = Len(arr)
    /\ api_pc = "single"
    /\ chunk = ChunkInit(source_idxs)
    /\ par = Unused
    /\ ret = None
    /\ store = Unused /\ ins_node = Unused /\ ins_last = Unused
    /\ ch = Unused /\ query = Unused
    /\ AuxIdle

TargetsNext ==
    \/ ChunkLoopExit
    \/ ChunkLoopSkip
    \/ ChunkLoopPop
    \/ ReturnSingle

SpecKbestTargets == TargetsInit /\ [][TargetsNext]_vars

-----------------------------------------------------------------------------
(* Specification of kbest_multisource_bucket_csr called with cutoff_overflow
   below cutoff_primary *)

BadCutoffPairs == {<<1, 0>>, <<2, 1>>, <<3, 1>>}

BadCutoffsInit ==
    /\ \E E \in EdgeSets(Weights) : GraphInit(Cardinality(Nodes), E)
    /\ source_idxs \in {q \in AnchorSeqs : Len(q) <= 2}
    /\ \E cp \in BadCutoffPairs : cutoff_primary_s = cp[1] /\ cutoff_overflow_s = cp[2]
    /\ threads = 1
    /\ k \in KChoices
    /\ overflow_checks = Unused
    /\ is_target = None /\ targets_total = 0
    /\ api_pc = "single"
    /\ chunk = ChunkInit(source_idxs)
    /\ par = Unused
    /\ ret = None
    /\ store = Unused /\ ins_node = Unused /\ ins_last = Unused
    /\ ch = Unused /\ query = Unused
    /\ AuxIdle

BadCutoffsNext ==
    \/ ChunkLoopExit
    \/ ChunkLoopSkip
    \/ ChunkLoopPop
    \/ ReturnSingle

SpecKbestBadCutoffs == BadCutoffsInit /\ [][BadCutoffsNext]_vars

-----------------------------------------------------------------------------
(* Specification of kbest_multisource_bucket_csr with the pool workers of
   the parallel path interleaved step by step and the progress reporting of
   both paths.  par holds the progress flag, whether a callback was given,
   the atomic counter, the calls (done, total) the callback received and,
   per part, the worker's position and its private compute_chunk state *)

WorkerEdgeSets == {{}, {<<0, 1, 0>>}, {<<0, 1, 1>>, <<1, 2, 0>>}, {<<1, 0, 1>>, <<0, 1, 1>>}}

WorkerThreads == {2}

\* anchor lists of the parallel path: ascending nodes and two cyclic lists
WorkerAnchorSeqs(t) ==
    {[i \in 1..ParNodeCount(t) |-> i - 1], CyclicSeq(<<1, 0>>, ParNodeCount(t)),
     CyclicSeq(<<0, 1, 2>>, ParNodeCount(t))}

\* anchor lists short enough for the single-chunk path
WorkerShortSeqs == {<<>>, <<0>>, <<2, 0>>}

\* (progress, progress_cb given)
ProgressChoices == BOOLEAN \X BOOLEAN

WorkersParInputs ==
    /\ threads \in WorkerThreads
    /\ \E E \in WorkerEdgeSets : GraphInit(ParNodeCount(threads), E)
    /\ source_idxs \in WorkerAnchorSeqs(threads)

WorkersSingleInputs ==
    /\ threads \in {0, 1} \cup WorkerThreads
    /\ \E E \in WorkerEdgeSets : GraphInit(Cardinality(Nodes), E)
    /\ source_idxs \in WorkerShortSeqs

WorkersInit ==
    /\ WorkersParInputs \/ WorkersSingleInputs
    /\ \E cp \in ParCutoffPairs : cutoff_primary_s = cp[1] /\ cutoff_overflow_s = cp[2]
    /\ k \in KChoices
    /\ overflow_checks = Unused
    /\ is_target = None /\ targets_total = 0
    /\ api_pc = IF ShouldParallel THEN "parallel" ELSE "single"
    /\ chunk = IF ShouldParallel THEN Unused ELSE ChunkInit(source_idxs)
    /\ \E pg \in ProgressChoices :
           par = [progress |-> pg[1], has_cb |-> pg[2], counter |-> 0, calls |-> <<>>,
                  workers |-> IF ShouldParallel
                              THEN [i \in 1..Len(Parts) |-> [pc |-> "idle"]]
                              ELSE <<>>,
                  results |-> EmptyMap,
                  merged |-> EmptyStore(n_nodes, k),
                  node_i |-> 0]
    /\ ret = None
    /\ store = Unused /\ ins_node = Unused /\ ins_last = Unused
    /\ ch = Unused /\ query = Unused
    /\ AuxIdle

WorkersRest == <<graph_vars, call_vars, aux_vars, ins_vars, ch_vars>>

\* variant of the collection that appends the results as the parts complete
CollectedInCompletionOrder(results, i, res) ==
    [j \in DOMAIN results \cup {Cardinality(DOMAIN results) + 1} |->
        IF j \in DOMAIN results THEN results[j] ELSE res]

\* par_iter().map(..).collect(): the result of part i is element i
Collected(results, i, res) ==
    [j \in DOMAIN results \cup {i} |-> IF j = i THEN res ELSE results[j]]

\* the workers inside the map closure: the pool runs at most t of them
WorkersBusy == {i \in DOMAIN par.workers : par.workers[i].pc \in {"run", "counted"}}

\* a pool thread takes part i and enters compute_chunk on its slice
WorkerStart(i) ==
    /\ api_pc = "parallel"
    /\ par.workers[i].pc = "idle"
    /\ Cardinality(WorkersBusy) < ThreadsT
    /\ par' = [par EXCEPT !.workers[i] =
                   [pc |-> "run", c |-> ChunkInit(SourceSlice(Parts[i]))]]
    /\ UNCHANGED <<WorkersRest, chunk, api_pc, ret>>

\* one loop iteration of the worker's compute_chunk, on its own state
WorkerStep(i) ==
    /\ api_pc = "parallel"
    /\ par.workers[i].pc = "run"
    /\ par.workers[i].c.pc = "loop"
    /\ par' = [par EXCEPT !.workers[i].c = ChunkStep(@)]
    /\ UNCHANGED <<WorkersRest, chunk, api_pc, ret>>

\* compute_chunk returned and progress is off: the closure yields res
WorkerYieldQuiet(i) ==
    /\ api_pc = "parallel"
    /\ par.workers[i].pc = "run"
    /\ par.workers[i].c.pc = "done"
    /\ ~par.progress
    /\ par' = [par EXCEPT !.workers[i] = [pc |-> "done"],
                          !.results = Collected(@, i, ChunkResult(par.workers[i].c))]
    /\ UNCHANGED <<WorkersRest, chunk, api_pc, ret>>

\* variant of the count that reports the value fetch_add returns
WorkerCountPrevious(i) ==
    /\ api_pc = "parallel"
    /\ par.workers[i].pc = "run"
    /\ par.workers[i].c.pc = "done"
    /\ par.progress
    /\ par' = [par EXCEPT !.counter = @ + 1,
                          !.workers[i] = [pc |-> "counted", c |-> par.workers[i].c,
                                          done |-> par.counter]]
    /\ UNCHANGED <<WorkersRest, chunk, api_pc, ret>>

\* compute_chunk returned and progress is on: done = counter.fetch_add(1) + 1
WorkerCount(i) ==
    /\ api_pc = "parallel"
    /\ par.workers[i].pc = "run"
    /\ par.workers[i].c.pc = "done"
    /\ par.progress
    /\ par' = [par EXCEPT !.counter = @ + 1,
                          !.workers[i] = [pc |-> "counted", c |-> par.workers[i].c,
                                          done |-> par.counter + 1]]
    /\ UNCHANGED <<WorkersRest, chunk, api_pc, ret>>

\* the worker reports (done, total_parts), to the callback if one was given
\* and to stderr otherwise, and the closure yields res
WorkerReport(i) ==
    /\ api_pc = "parallel"
    /\ par.workers[i].pc = "counted"
    /\ par' = [par EXCEPT !.calls = IF par.has_cb
                                    THEN Append(@, <<par.workers[i].done, Len(Parts)>>)
                                    ELSE @,
                          !.workers[i] = [pc |-> "done"],
                          !.results = Collected(@, i, ChunkResult(par.workers[i].c))]
    /\ UNCHANGED <<WorkersRest, chunk, api_pc, ret>>

\* the single-chunk loop
SingleStep ==
    /\ api_pc = "single"
    /\ chunk.pc = "loop"
    /\ chunk' = ChunkStep(chunk)
    /\ UNCHANGED <<WorkersRest, api_pc, par, ret>>

\* single-chunk path: report (1, 1) if progress is on, then return the arrays
SingleReportReturn ==
    /\ api_pc = "single"
    /\ chunk.pc = "done"
    /\ par' = [par EXCEPT !.calls = IF par.progress /\ par.has_cb
                                    THEN Append(@, <<1, 1>>) ELSE @]
    /\ ret' = ChunkResult(chunk)
    /\ api_pc' = "returned"
    /\ UNCHANGED <<WorkersRest, chunk>>

WorkersNext ==
    \/ \E i \in 1..Len(Parts) : WorkerStart(i)
    \/ \E i \in 1..Len(Parts) : WorkerStep(i)
    \/ \E i \in 1..Len(Parts) : WorkerYieldQuiet(i)
    \/ \E i \in 1..Len(Parts) : WorkerCount(i)
    \/ \E i \in 1..Len(Parts) : WorkerReport(i)
    \/ ParMergeNode
    \/ ReturnParallel
    \/ SingleStep
    \/ SingleReportReturn

SpecKbestWorkers == WorkersInit /\ [][WorkersNext]_vars

-----------------------------------------------------------------------------
(* Specification of the path selection of kbest_multisource_bucket_csr: the
   call starts before the choice between the single-chunk and the parallel
   path, for thread counts 0..DispatchMaxThreads and anchor lists on both
   sides of the 4 * threads threshold *)

DispatchMaxThreads == 3

DispatchAnchorCounts == 0..(4 * DispatchMaxThreads + 2)

DispatchEdgeSets == {{}, {<<0, 1, 1>>}}

DispatchInit ==
    /\ \E E \in DispatchEdgeSets : GraphInit(2, E)
    /\ threads \in 0..DispatchMaxThreads
    /\ \E n \in DispatchAnchorCounts : source_idxs = CyclicSeq(<<0, 1>>, n)
    /\ k = 1
    /\ cutoff_primary_s = 1 /\ cutoff_overflow_s = 2
    /\ overflow_checks = Unused
    /\ is_target = None /\ targets_total = 0
    /\ api_pc = "called"
    /\ chunk = Unused
    /\ par = Unused
    /\ ret = None
    /\ store = Unused /\ ins_node = Unused /\ ins_last = Unused
    /\ ch = Unused /\ query = Unused
    /\ AuxIdle

\* if !should_parallel: compute_chunk is called on the whole of source_idxs
DispatchSingle ==
    /\ api_pc = "called"
    /\ ~ShouldParallel
    /\ api_pc' = "single"
    /\ chunk' = ChunkInit(source_idxs)
    /\ UNCHANGED <<graph_vars, call_vars, aux_vars, par, ret, ins_vars, ch_vars>>

\* otherwise the chunk slices are built and handed to the pool
DispatchParallel ==
    /\ api_pc = "called"
    /\ ShouldParallel
    /\ api_pc' = "parallel"
    /\ par' = [parts |-> Parts,
               results |-> EmptyMap,
               merged |-> EmptyStore(n_nodes, k),
               node_i |-> 0]
    /\ UNCHANGED <<graph_vars, call_vars, aux_vars, chunk, ret, ins_vars, ch_vars>>

DispatchNext ==
    \/ DispatchSingle
    \/ DispatchParallel
    \/ ChunkLoopExit
    \/ ChunkLoopSkip
    \/ ChunkLoopPop
    \/ ReturnSingle
    \/ \E i \in 1..Len(Parts) : ParChunkFinish(i)
    \/ ParMergeNode
    \/ ReturnParallel

SpecKbestDispatch == DispatchInit /\ [][DispatchNext]_vars

-----------------------------------------------------------------------------
(* Specification of the single-chunk engine on graphs in which a pair can be
   discovered more than once: the edges are drawn from 0 -> 1, 0 -> 2,
   2 -> 1 and 1 -> 0, so that node 1 is reached directly and through node 2,
   and the graph may hold a cycle *)

EnginePairs == {<<0, 1>>, <<0, 2>>, <<2, 1>>, <<1, 0>>}

EngineEdgeSets ==
    UNION {{ {<<p[1], p[2], wf[p]>> : p \in P} : wf \in [P -> Weights] } :
              P \in SUBSET EnginePairs}

EngineCutoffPairs == {<<0, 2>>, <<1, 3>>, <<3, 3>>}

EngineInit ==
    /\ \E E \in EngineEdgeSets : GraphInit(Cardinality(Nodes), E)
    /\ source_idxs \in {q \in AnchorSeqs : Len(q) <= 2}
    /\ \E cp \in EngineCutoffPairs : cutoff_primary_s = cp[1] /\ cutoff_overflow_s = cp[2]
    /\ threads = 1
    /\ k \in KChoices
    /\ overflow_checks = Unused
    /\ is_target = None /\ targets_total = 0
    /\ api_pc = "single"
    /\ chunk = ChunkInit(source_idxs)
    /\ par = Unused
    /\ ret = None
    /\ store = Unused /\ ins_node = Unused /\ ins_last = Unused
    /\ ch = Unused /\ query = Unused
    /\ AuxIdle

EngineNext ==
    \/ ChunkLoopExit
    \/ ChunkLoopSkip
    \/ ChunkLoopPop
    \/ ReturnSingle

SpecKbestEngine == EngineInit /\ [][EngineNext]_vars

-----------------------------------------------------------------------------
(* Specification of the parallel path of kbest_multisource_bucket_csr with
   weights and cutoffs at the upper end of the u16 range: two or three
   anchors repeated cyclically, so that some node is no anchor *)

ParWideInit ==
    /\ threads \in ParThreads
    /\ \E E \in FewEdgeSets(WideWeights) : GraphInit(Cardinality(Nodes), E)
    /\ source_idxs \in
           {CyclicSeq(b, ParNodeCount(threads)) :
               b \in {q \in UNION {[1..n -> Nodes] : n \in 2..3} : Injective(q)}}
    /\ \E cp \in WideCutoffPairs : cutoff_primary_s = cp[1] /\ cutoff_overflow_s = cp[2]
    /\ k \in KChoices
    /\ overflow_checks = Unused
    /\ is_target = None /\ targets_total = 0
    /\ api_pc = "parallel"
    /\ chunk = Unused
    /\ par = [results |-> EmptyMap,
              merged |-> EmptyStore(n_nodes, k),
              node_i |-> 0]
    /\ ret = None
    /\ store = Unused /\ ins_node = Unused /\ ins_last = Unused
    /\ ch = Unused /\ query = Unused
    /\ AuxIdle

ParWideNext ==
    \/ \E i \in 1..Len(Parts) : ParChunkFinish(i)
    \/ ParMergeNode
    \/ ReturnParallel

SpecKbestParWide == ParWideInit /\ [][ParWideNext]_vars

-----------------------------------------------------------------------------
(* aggregate_h3_topk_precached.  A cell list (TopK) is a sequence of
   <<site, ts>>; a HexMap is a function from the h3 ids it holds to their
   lists; inp is the record of the call's arguments *)

\* position of site in the list, 0 if absent
FoundAt(entry, site) ==
    IF \E p \in DOMAIN entry : entry[p][1] = site
    THEN SetMin({p \in DOMAIN entry : entry[p][1] = site})
    ELSE 0

\* worst_i: the first position holding the largest time
WorstAt(entry) ==
    CHOOSE i \in DOMAIN entry :
        \A j \in DOMAIN entry :
            entry[j][2] <= entry[i][2] /\ (j < i => entry[j][2] < entry[i][2])

\* variant of the list update that keeps the first time seen for a site
update_topk_keep_first(entry, site, ts, kk) ==
    LET p == FoundAt(entry, site) IN
    IF p > 0 THEN entry
    ELSE IF Len(entry) < kk THEN Append(entry, <<site, ts>>)
    ELSE IF entry = <<>> THEN entry
    ELSE LET wi == WorstAt(entry) IN
         IF ts < entry[wi][2] THEN [entry EXCEPT ![wi] = <<site, ts>>] ELSE entry

\* the inlined update_topk of the per-part loop and of the merge
update_topk(entry, site, ts, kk) ==
    LET p == FoundAt(entry, site) IN
    IF p > 0
    THEN IF ts < entry[p][2] THEN [entry EXCEPT ![p] = <<site, ts>>] ELSE entry
    ELSE IF Len(entry) < kk THEN Append(entry, <<site, ts>>)
    ELSE IF entry = <<>> THEN entry
    ELSE LET wi == WorstAt(entry) IN
         IF ts < entry[wi][2] THEN [entry EXCEPT ![wi] = <<site, ts>>] ELSE entry

\* for j in j..kdim-1: the labels of node i that pass the filters
RECURSIVE AggSlots(_, _, _, _)
AggSlots(entry, i, j, inp) ==
    IF j >= inp.kdim THEN entry
    ELSE IF inp.a[i][j] < 0 \/ inp.t[i][j] >= inp.unreachable
    THEN AggSlots(entry, i, j + 1, inp)
    ELSE AggSlots(update_topk(entry, inp.a[i][j], inp.t[i][j], inp.k), i, j + 1, inp)

\* map_for_res.entry(h3_id).or_insert_with(..)
EntryOf(map, h) == IF h \in DOMAIN map THEN map[h] ELSE <<>>

\* variant of the node step that keeps the nodes whose h3 id is 0
AggNodeResKeepZero(map, i, ri, inp) ==
    LET h == inp.h3[i][ri] IN
    [x \in DOMAIN map \cup {h} |->
        IF x = h THEN AggSlots(EntryOf(map, h), i, 0, inp) ELSE map[x]]

\* node i into the map of resolution ri
AggNodeRes(map, i, ri, inp) ==
    LET h == inp.h3[i][ri] IN
    IF h = 0 THEN map
    ELSE [x \in DOMAIN map \cup {h} |->
             IF x = h THEN AggSlots(EntryOf(map, h), i, 0, inp) ELSE map[x]]

\* for i in lo..hi: the local maps of a part, one per resolution
RECURSIVE AggPart(_, _, _, _)
AggPart(local, lo, hi, inp) ==
    IF lo >= hi THEN local
    ELSE AggPart([ri \in DOMAIN local |-> AggNodeRes(local[ri], lo, ri, inp)],
                 lo + 1, hi, inp)

EmptyMaps(inp) == [ri \in 0..(inp.r_len - 1) |-> <<>>]

\* the pairs p.. of a partial list into the global list gin
RECURSIVE MergeList(_, _, _, _)
MergeList(gin, inner, p, kk) ==
    IF p > Len(inner) THEN gin
    ELSE MergeList(update_topk(gin, inner[p][1], inner[p][2], kk), inner, p + 1, kk)

\* one partial into the globals
MergePartial(globals, pr, kk) ==
    [ri \in DOMAIN globals |->
        [h \in DOMAIN globals[ri] \cup DOMAIN pr[ri] |->
            IF h \in DOMAIN pr[ri]
            THEN MergeList(EntryOf(globals[ri], h), pr[ri][h], 1, kk)
            ELSE globals[ri][h]]]

\* the partials p.. into the globals, in part order
RECURSIVE MergePartials(_, _, _, _)
MergePartials(globals, partials, p, kk) ==
    IF p >= ArrLen(partials) THEN globals
    ELSE MergePartials(MergePartial(globals, partials[p], kk), partials, p + 1, kk)

\* threads_n and the contiguous parts <<lo, hi>>
AggNumParts(n, thr) == Min2(IF thr = 0 THEN 1 ELSE thr, Max2(1, n))

RECURSIVE AggPartsFrom(_, _, _, _)
AggPartsFrom(i, start, n, num_parts) ==
    IF i >= num_parts THEN <<>>
    ELSE LET remain == n - start
             chunk_len == (remain + (num_parts - i) - 1) \div (num_parts - i)
         IN  <<<<start, start + chunk_len>>>>
                 \o AggPartsFrom(i + 1, start + chunk_len, n, num_parts)

AggParts(n, thr) == ArrayOf(AggPartsFrom(0, 0, n, AggNumParts(n, thr)))

\* tmp.sort_unstable_by (time, site): the pairs of a list are pairwise
\* different, so the order is total
PairLess(x, y) == x[2] < y[2] \/ (x[2] = y[2] /\ x[1] < y[1])

RECURSIVE SortPairs(_)
SortPairs(S) ==
    IF S = {} THEN <<>>
    ELSE LET m == CHOOSE x \in S : \A y \in S : y = x \/ PairLess(x, y)
         IN  <<m>> \o SortPairs(S \ {m})

\* the rows <<h3_id, site, ts, res>> pushed for one cell
CellRows(h, pairs, r_val) ==
    LET tmp == SortPairs(SeqRange(pairs))
    IN  [p \in DOMAIN tmp |-> <<h, tmp[p][1], tmp[p][2], r_val>>]

\* every arrangement of a set as a sequence
RECURSIVE Arrangements(_)
Arrangements(S) ==
    IF S = {} THEN {<<>>}
    ELSE UNION {{<<x>> \o rest : rest \in Arrangements(S \ {x})} : x \in S}

\* the rows of one resolution, the cells taken in the order cells
RECURSIVE ResRows(_, _, _, _)
ResRows(map, cells, p, r_val) ==
    IF p > Len(cells) THEN <<>>
    ELSE CellRows(cells[p], map[cells[p]], r_val) \o ResRows(map, cells, p + 1, r_val)

\* the outputs the iteration order of the hash maps allows, resolutions ri..
RECURSIVE AggOutputs(_, _, _)
AggOutputs(globals, ri, inp) ==
    IF ri >= inp.r_len THEN {<<>>}
    ELSE {ResRows(globals[ri], cells, 1, inp.res_list[ri]) \o rest :
             cells \in Arrangements(DOMAIN globals[ri]),
             rest \in AggOutputs(globals, ri + 1, inp)}

\* the globals of a whole call with thr threads
AggGlobals(inp, thr) ==
    LET parts == AggParts(inp.n, thr)
        partials == [p \in DOMAIN parts |->
                        AggPart(EmptyMaps(inp), parts[p][1], parts[p][2], inp)]
    IN  MergePartials(EmptyMaps(inp), partials, 0, inp.k)

-----------------------------------------------------------------------------
(* Calls of aggregate_h3_topk_precached: a family of small two-resolution
   inputs (cells missing, anchors repeated over slots and nodes, times at the
   unreachable sentinel, a resolutions array of the wrong length) and a
   family of one-cell inputs whose labels tie on time *)

AggMaxK == 2
AggMaxThreads == 2

AggH3Rows == {<<0, 80>>, <<70, 80>>, <<71, 81>>}
AggAnchorRows == {<<-1, -1>>, <<0, -1>>, <<0, 1>>, <<1, 0>>, <<0, 0>>}
AggTimeRows == {<<2, 1>>, <<2, 3>>, <<1, 1>>}
AggResLists == {<<7, 8>>, <<7>>}
AggNodeCounts == {0, 1, 2}
AggTieShapes == {<<1, 0, 1, 2>>, <<1, 1, 1, 1>>}
AggTieTimes == {1, 2, 3}

\* arrays of n rows drawn from Rows
RowArrays(n, Rows) == {[i \in 0..(n - 1) |-> ArrayOf(q[i + 1])] : q \in [1..n -> Rows]}

\* the small inputs with n nodes
AggSmallInputsOf(n) ==
    {[n |-> n, kdim |-> 2, r_len |-> 2, h3 |-> h, a |-> a, t |-> t,
      res_list |-> ArrayOf(rl), k |-> kk, unreachable |-> 3, threads |-> thr] :
        h \in RowArrays(n, AggH3Rows), a \in RowArrays(n, AggAnchorRows),
        t \in RowArrays(n, AggTimeRows), rl \in IF n < 2 THEN AggResLists ELSE {<<7, 8>>},
        kk \in 0..AggMaxK, thr \in 0..AggMaxThreads}

\* the number of labels of the nodes before node i
RECURSIVE ShapeOffset(_, _)
ShapeOffset(shape, i) == IF i = 0 THEN 0 ELSE shape[i] + ShapeOffset(shape, i - 1)

\* node i holds shape[i + 1] labels of the flat list, the other slots are empty
ShapedRows(shape, flat, empty) ==
    [i \in 0..(Len(shape) - 1) |->
        [j \in 0..1 |-> IF j < shape[i + 1] THEN flat[ShapeOffset(shape, i) + j + 1]
                        ELSE empty]]

\* the one-cell inputs of four nodes with the labels laid out as shape
AggTieInputsOf(shape) ==
    {[n |-> 4, kdim |-> 2, r_len |-> 1, h3 |-> [i \in 0..3 |-> ArrayOf(<<70>>)],
      a |-> ShapedRows(shape, sites, -1), t |-> ShapedRows(shape, times, 4),
      res_list |-> ArrayOf(<<7>>), k |-> 2, unreachable |-> 4, threads |-> thr] :
        sites \in Arrangements(0..3),
        times \in [1..4 -> AggTieTimes], thr \in 1..AggMaxThreads}

AggInit ==
    /\ \/ \E n \in AggNodeCounts : \E inp \in AggSmallInputsOf(n) :
              h3agg = [pc |-> "call", inp |-> inp]
       \/ \E shape \in AggTieShapes : \E inp \in AggTieInputsOf(shape) :
              h3agg = [pc |-> "call", inp |-> inp]
    /\ n_nodes = Unused /\ indptr = Unused /\ indices = Unused /\ w_sec = Unused
    /\ source_idxs = Unused /\ k = Unused
    /\ cutoff_primary_s = Unused /\ cutoff_overflow_s = Unused /\ threads = Unused
    /\ is_target = Unused /\ targets_total = Unused /\ overflow_checks = Unused
    /\ chunk = Unused /\ api_pc = Unused /\ par = Unused /\ ret = Unused
    /\ store = Unused /\ ins_node = Unused /\ ins_last = Unused
    /\ ch = Unused /\ query = Unused
    /\ chapi = Unused /\ csr_build = Unused /\ wcc = Unused

AggRest == <<graph_vars, call_vars, kbest_vars, ins_vars, ch_vars, chapi, csr_build, wcc>>

\* the shape checks on the arrays
AggShapesOk(inp) ==
    /\ ArrLen(inp.t) = inp.n
    /\ \A i \in DOMAIN inp.t : ArrLen(inp.t[i]) = inp.kdim
    /\ ArrLen(inp.h3) = inp.n
    /\ ArrLen(inp.res_list) = inp.r_len

\* a shape check fails: Err(PyValueError)
AggReject ==
    /\ h3agg.pc = "call"
    /\ ~AggShapesOk(h3agg.inp)
    /\ h3agg' = [pc |-> "error", inp |-> h3agg.inp]
    /\ UNCHANGED AggRest

\* the nodes are partitioned into contiguous parts
AggPartition ==
    /\ h3agg.pc = "call"
    /\ AggShapesOk(h3agg.inp)
    /\ h3agg' = [pc |-> "parts", inp |-> h3agg.inp,
                 parts |-> AggParts(h3agg.inp.n, h3agg.inp.threads), partials |-> <<>>]
    /\ UNCHANGED AggRest

\* one task of the pool aggregates its part into its local maps
AggRunPart ==
    /\ h3agg.pc = "parts"
    /\ \E p \in DOMAIN h3agg.parts \ DOMAIN h3agg.partials :
       \E local \in {AggPart(EmptyMaps(h3agg.inp), h3agg.parts[p][1], h3agg.parts[p][2], h3agg.inp)} :
           h3agg' = [h3agg EXCEPT !.partials = [x \in DOMAIN h3agg.partials \cup {p} |->
                                                   IF x = p THEN local ELSE h3agg.partials[x]]]
    /\ UNCHANGED AggRest

\* the partials are merged in part order
AggMerge ==
    /\ h3agg.pc = "parts"
    /\ DOMAIN h3agg.partials = DOMAIN h3agg.parts
    /\ h3agg' = [pc |-> "merged", inp |-> h3agg.inp,
                 globals |-> MergePartials(EmptyMaps(h3agg.inp), h3agg.partials, 0, h3agg.inp.k)]
    /\ UNCHANGED AggRest

\* the output arrays are built, the cells in the order the maps iterate them
AggBuildOutputs ==
    /\ h3agg.pc = "merged"
    /\ \E out \in AggOutputs(h3agg.globals, 0, h3agg.inp) :
           h3agg' = [pc |-> "returned", inp |-> h3agg.inp, globals |-> h3agg.globals,
                     out |-> out]
    /\ UNCHANGED AggRest

AggNext ==
    \/ AggReject
    \/ AggPartition
    \/ AggRunPart
    \/ AggMerge
    \/ AggBuildOutputs

SpecH3Agg == AggInit /\ [][AggNext]_vars

-----------------------------------------------------------------------------
(* weakly_connected_components: breadth-first search over the forward and the
   reverse CSR *)

\* for idx in idx..e: mark and enqueue the unvisited neighbours ind[idx]
RECURSIVE WccVisit(_, _, _, _, _)
WccVisit(st, ind, idx, e, cid) ==
    IF idx >= e THEN st
    ELSE LET v == ind[idx] IN
         IF st.comp_id[v] < 0
         THEN WccVisit([comp_id |-> [st.comp_id EXCEPT ![v] = cid], q |-> Append(st.q, v)],
                       ind, idx + 1, e, cid)
         ELSE WccVisit(st, ind, idx + 1, e, cid)

\* variant of the loop body that scans the forward row only
WccPopForwardOnly(w, u) ==
    WccVisit([comp_id |-> w.comp_id, q |-> Tail(w.q)],
             w.indices, w.indptr[u], w.indptr[u + 1], w.cid)

\* the body of `while let Some(u) = q.pop_front()`: forward row, then reverse row
WccPopFront(w, u) ==
    LET fwd == WccVisit([comp_id |-> w.comp_id, q |-> Tail(w.q)],
                        w.indices, w.indptr[u], w.indptr[u + 1], w.cid)
    IN  WccVisit(fwd, w.indices_rev, w.indptr_rev[u], w.indptr_rev[u + 1], w.cid)

WccMaxNodes == 4
WccMaxEdges == 3

\* the edge sets of the directed graphs on n nodes, self loops included
WccEdgeSets(n) ==
    {Q \in SUBSET ((0..(n - 1)) \X (0..(n - 1))) : Cardinality(Q) <= WccMaxEdges}

\* the edges as <<src, dst, 0>>, and reversed
WccForward(E) == {<<x[1], x[2], 0>> : x \in E}

WccReverse(E) == {<<x[2], x[1], 0>> : x \in E}

WccInit ==
    /\ \E n \in 0..WccMaxNodes : \E E \in WccEdgeSets(n) :
       \E fwd \in {WccForward(E)}, rev \in {WccReverse(E)} :
           wcc = [pc |-> "scan", n |-> n,
                  indptr |-> CsrIndptr(n, fwd), indices |-> CsrIndices(fwd),
                  indptr_rev |-> CsrIndptr(n, rev), indices_rev |-> CsrIndices(rev),
                  comp_id |-> [v \in 0..(n - 1) |-> -1],
                  cid |-> 0, start |-> 0, q |-> <<>>]
    /\ n_nodes = Unused /\ indptr = Unused /\ indices = Unused /\ w_sec = Unused
    /\ source_idxs = Unused /\ k = Unused
    /\ cutoff_primary_s = Unused /\ cutoff_overflow_s = Unused /\ threads = Unused
    /\ is_target = Unused /\ targets_total = Unused /\ overflow_checks = Unused
    /\ chunk = Unused /\ api_pc = Unused /\ par = Unused /\ ret = Unused
    /\ store = Unused /\ ins_node = Unused /\ ins_last = Unused
    /\ ch = Unused /\ query = Unused
    /\ chapi = Unused /\ csr_build = Unused /\ h3agg = Unused

WccRest == <<graph_vars, call_vars, kbest_vars, ins_vars, ch_vars, chapi, csr_build, h3agg>>

\* for start: the node already has a component, continue
WccSkip ==
    /\ wcc.pc = "scan"
    /\ wcc.start < wcc.n
    /\ wcc.comp_id[wcc.start] >= 0
    /\ wcc' = [wcc EXCEPT !.start = @ + 1]
    /\ UNCHANGED WccRest

\* for start: a new component begins at start
WccBegin ==
    /\ wcc.pc = "scan"
    /\ wcc.start < wcc.n
    /\ wcc.comp_id[wcc.start] < 0
    /\ wcc' = [wcc EXCEPT !.comp_id[wcc.start] = wcc.cid, !.q = <<wcc.start>>, !.pc = "bfs"]
    /\ UNCHANGED WccRest

\* one iteration of the queue loop
WccPop ==
    /\ wcc.pc = "bfs"
    /\ wcc.q /= <<>>
    /\ \E st \in {WccPopFront(wcc, Head(wcc.q))} :
           wcc' = [wcc EXCEPT !.comp_id = st.comp_id, !.q = st.q]
    /\ UNCHANGED WccRest

\* the queue is empty: cid += 1 and the scan goes on
WccClose ==
    /\ wcc.pc = "bfs"
    /\ wcc.q = <<>>
    /\ wcc' = [wcc EXCEPT !.cid = @ + 1, !.start = @ + 1, !.pc = "scan"]
    /\ UNCHANGED WccRest

\* the scan is over: Ok(comp_id)
WccReturn ==
    /\ wcc.pc = "scan"
    /\ wcc.start >= wcc.n
    /\ wcc' = [wcc EXCEPT !.pc = "returned"]
    /\ UNCHANGED WccRest

WccNext ==
    \/ WccSkip
    \/ WccBegin
    \/ WccPop
    \/ WccClose
    \/ WccReturn

SpecWcc == WccInit /\ [][WccNext]_vars

-----------------------------------------------------------------------------
(* Properties of kbest_multisource_bucket_csr *)

Returned == api_pc = "returned"

RetTime(v, j) == ret.time_s[v * k + j]

RetAnchor(v, j) == ret.best_src[v * k + j]

RetPopulated(v) == {j \in 0..(k - 1) : RetAnchor(v, j) /= -1}

\* C1: in the returned arrays every node row has non-decreasing times, no
\* anchor other than -1 in two slots, and only empty slots after an empty one.
C1_RowsSortedDistinctPacked ==
    Returned =>
        \A v \in NodeIds :
            /\ \A j \in 0..(k - 2) : RetTime(v, j) <= RetTime(v, j + 1)
            /\ Cardinality({RetAnchor(v, j) : j \in RetPopulated(v)})
                   = Cardinality(RetPopulated(v))
            /\ \A j \in 0..(k - 2) : RetAnchor(v, j) = -1 => RetAnchor(v, j + 1) = -1

\* C2: every populated slot holds a time <= cutoff_overflow that equals the
\* shortest-path distance from the slot's anchor to the node.
C2_TimesAreShortestPaths ==
    Returned =>
        LET D == AnchorDist IN
        \A v \in NodeIds : \A j \in RetPopulated(v) :
            /\ RetTime(v, j) <= cutoff_overflow_s
            /\ RetTime(v, j) = D[RetAnchor(v, j)][v]

\* C3: single-chunk engine: the populated times of a node, in slot order,
\* are the K smallest (all, if fewer than K exist) of the distances
\* dist(a, v) <= cutoff_overflow over the distinct anchors a.
C3_TimesAreKNearest ==
    (Returned /\ ~ShouldParallel) =>
        LET D == AnchorDist IN
        \A v \in NodeIds :
            LET cand == AnchorsWithin(D, v, cutoff_overflow_s)
                m == Min2(k, Cardinality(cand))
            IN  /\ RetPopulated(v) = 0..(m - 1)
                /\ \A j \in 0..(m - 1) :
                       /\ Cardinality({a \in cand : D[a][v] < RetTime(v, j)}) <= j
                       /\ Cardinality({a \in cand : D[a][v] <= RetTime(v, j)}) >= j + 1

\* C4: primary dominance: a node with at least K anchors within
\* cutoff_primary has every slot at a time <= cutoff_primary.
C4_PrimaryDominance ==
    Returned =>
        LET D == AnchorDist IN
        \A v \in NodeIds :
            Cardinality(AnchorsWithin(D, v, cutoff_primary_s)) >= k =>
                \A j \in 0..(k - 1) : RetTime(v, j) <= cutoff_primary_s

\* C5: the parallel path returns the arrays the single-chunk path returns
\* for the same inputs.
C5_ParallelEqualsSingle ==
    (Returned /\ ShouldParallel) =>
        ret = ChunkResult(compute_chunk(source_idxs))

-----------------------------------------------------------------------------
(* Properties of the label store *)

\* slots of node v that hold a label (anchor is not the -1 sentinel)
PopulatedSlots(st, kk, v) == {j \in 0..(kk - 1) : st.best_src[v * kk + j] /= -1}

\* the last call was an insert of a label that the node did not hold
InsCalled == ins_last.node /= -1

InsBeforeUsed == ins_last.before.labels_used[ins_last.node]

InsAnchorWasStored ==
    \E j \in 0..(InsBeforeUsed - 1) :
        ins_last.before.best_src[ins_last.node * k + j] = ins_last.src

\* C6: after any sequence of insert_label_for_node calls on a node the
\* populated labels are sorted ascending by time, and labels with equal
\* time are ordered by ascending anchor id.
C6_SortedByTimeThenAnchor ==
    \A v \in InsNodes : \A j \in 0..(store.labels_used[v] - 2) :
        LET a == v * k + j IN
        \/ store.time_s[a] < store.time_s[a + 1]
        \/ /\ store.time_s[a] = store.time_s[a + 1]
           /\ store.best_src[a] < store.best_src[a + 1]

\* C7: labels_used equals the number of populated slots, primary_count the
\* number of populated slots with time <= cutoff_primary, both lie in
\* [0, K], and no anchor id occupies two slots of the node.
C7_CountersMatchSlots ==
    \A v \in InsNodes :
        LET pop == PopulatedSlots(store, k, v) IN
        /\ store.labels_used[v] = Cardinality(pop)
        /\ store.primary_count[v] =
               Cardinality({j \in pop : store.time_s[v * k + j] <= cutoff_primary_s})
        /\ store.labels_used[v] \in 0..k
        /\ store.primary_count[v] \in 0..k
        /\ \A i, j \in pop : i /= j => store.best_src[v * k + i] /= store.best_src[v * k + j]

\* a full node holding primary and overflow labels, after a replacing insert
C7_Witness ==
    /\ InsCalled
    /\ store /= ins_last.before
    /\ InsBeforeUsed = k
    /\ k >= 2
    /\ store.primary_count[ins_node] \in 1..(k - 1)
    /\ store.primary_count[ins_node] > ins_last.before.primary_count[ins_node]

\* C8 on a label store whose K is within the range of the u8 counters: an
\* insert of an overflow candidate (t > cutoff_primary) for an anchor not yet
\* stored keeps every stored primary label (same anchor, same time), and
\* primary_count never decreases under any insert.
C8_OverflowNeverEvictsPrimary ==
    InsCalled =>
        LET v == ins_last.node
            b == ins_last.before
        IN  /\ store.primary_count[v] >= b.primary_count[v]
            /\ (ins_last.t > cutoff_primary_s /\ ~InsAnchorWasStored) =>
                   \A j \in 0..(b.labels_used[v] - 1) :
                       b.time_s[v * k + j] <= cutoff_primary_s =>
                           \E i \in 0..(store.labels_used[v] - 1) :
                               /\ store.best_src[v * k + i] = b.best_src[v * k + j]
                               /\ store.time_s[v * k + i] = b.time_s[v * k + j]

\* an overflow candidate replaced an overflow label of a full node that
\* also holds a primary label
C8_Witness ==
    /\ InsCalled
    /\ ins_last.t > cutoff_primary_s
    /\ ~InsAnchorWasStored
    /\ InsBeforeUsed = k
    /\ ins_last.before.primary_count[ins_node] >= 1
    /\ store /= ins_last.before


\* the step recorded a label of time above cutoff_primary for an anchor
\* that no slot of the node held
LargePoppedOverflow ==
    /\ chunk.pc = "loop" /\ chunk'.pc = "loop"
    /\ chunk'.pops = chunk.pops + 1
    /\ chunk'.last_pop[3] > cutoff_primary_s
    /\ \A j \in 0..(k - 1) :
           chunk.best_src_idx_out[chunk'.last_pop[1] * k + j] /= chunk'.last_pop[2]

\* C8 inside compute_chunk, for any K: a step that records an overflow
\* label for an anchor the node did not hold keeps, with the same anchor
\* and time, every label of the node whose time is <= cutoff_primary.
C8_ChunkOverflowKeepsPrimary ==
    [][LargePoppedOverflow =>
          LET v == chunk'.last_pop[1] IN
          \A j \in 0..(k - 1) :
              (/\ chunk.best_src_idx_out[v * k + j] /= -1
               /\ chunk.time_s_out[v * k + j] <= cutoff_primary_s) =>
                  \E i \in 0..(k - 1) :
                      /\ chunk'.best_src_idx_out[v * k + i] = chunk.best_src_idx_out[v * k + j]
                      /\ chunk'.time_s_out[v * k + i] = chunk.time_s_out[v * k + j]]_vars

-----------------------------------------------------------------------------
(* Properties of the CH engine *)

QueryDone == query.pc = "done"

\* an unlimited query from a node of the graph
UnlimitedQuery == query.limit = INF_U32 /\ query.source \in NodeIds

\* the exact distance d (-1: no path) as run_phast reports it
AsU32(d) == IF d < 0 THEN INF_U32 ELSE U32(d)

IsDiamond == n_nodes = 4 /\ CsrEdges = DiamondEdges

\* C9: on a CSR graph whose weights are all >= 1, run_phast(source,
\* u32::MAX) returns for every node the shortest-path distance from source
\* in the original graph, and INF exactly for the nodes not reachable; the
\* diamond yields [0, 3, 4, 5] from source 0.
C9_PhastShortestPaths ==
    (QueryDone /\ UnlimitedQuery /\ \A e \in DOMAIN w_sec : w_sec[e] >= 1) =>
        LET d == ShortestFrom(query.source, InEdges(CsrEdges)) IN
        /\ DOMAIN query.dist = NodeIds
        /\ \A v \in NodeIds : query.dist[v] = AsU32(d[v])
        /\ (IsDiamond /\ query.source = 0) =>
               query.dist = [v \in NodeIds |-> U32(<<0, 3, 4, 5>>[v + 1])]

\* the diamond answered from source 0 over a hierarchy with a shortcut
C9_Witness ==
    /\ QueryDone /\ UnlimitedQuery
    /\ IsDiamond /\ query.source = 0
    /\ query.dist[3] = U32(5)
    /\ ArrLen(ch.graph.edges_fwd) + ArrLen(ch.graph.edges_bwd) > Cardinality(DiamondEdges)

\* C10: after an unlimited query from an in-range source s, dist[s] = 0 and
\* dist[v] <= dist[u] + w for every edge (u -> v, w) of the input graph (the
\* edges build_input_graph hands to the preparer) with dist[u] < INF.
C10_EdgesRelaxed ==
    (QueryDone /\ UnlimitedQuery) =>
        /\ query.dist[query.source] = U32(0)
        /\ \A e \in SeqRange(build_input_graph(indptr, indices, w_sec).edges) :
               query.dist[e[1]] /= INF_U32 =>
                   ~LtU32(SatAddU32(query.dist[e[1]], U32(e[3])), query.dist[e[2]])

\* a finished unlimited query with a tight edge and a slack edge whose
\* tails are both reached
C10_Witness ==
    /\ QueryDone /\ UnlimitedQuery
    /\ LET edges == SeqRange(build_input_graph(indptr, indices, w_sec).edges) IN
       /\ \E e \in edges :
              /\ e[1] /= query.source
              /\ query.dist[e[1]] /= INF_U32
              /\ query.dist[e[2]] = SatAddU32(query.dist[e[1]], U32(e[3]))
       /\ \E e \in edges :
              /\ query.dist[e[1]] /= INF_U32
              /\ LtU32(query.dist[e[2]], SatAddU32(query.dist[e[1]], U32(e[3])))


\* C11: at every point of run_phast(source, L), each entry of the distance
\* array is INF (u32::MAX) or <= L: neither the upward search nor the
\* downward sweep writes a distance greater than the limit.
C11_DistWithinLimit ==
    \A v \in DOMAIN query.dist :
        query.dist[v] = INF_U32 \/ ~LtU32(query.limit, query.dist[v])

\* a finished limited query that cut off a node the source reaches and kept
\* another one
C11_Witness ==
    /\ QueryDone
    /\ query.limit /= INF_U32
    /\ query.source \in NodeIds
    /\ LET d == ShortestFrom(query.source, InEdges(CsrEdges)) IN
       /\ \E v \in NodeIds : d[v] >= 0 /\ query.dist[v] = INF_U32
       /\ \E v \in NodeIds : v /= query.source /\ query.dist[v] /= INF_U32


-----------------------------------------------------------------------------
(* Properties of the CHGraph API *)

ApiQueried == chapi.pc = "queried"

\* C12: for the graph g2 = ch_from_bytes(to_bytes(g)), query_all and
\* query_subset return on g2 what they return on g, for every source,
\* target list and limit.
C12_RoundTripSameResults ==
    ApiQueried =>
        /\ chapi.all_loaded = chapi.all_built
        /\ chapi.sub_loaded = chapi.sub_built

\* a query on a loaded graph with downward edges that reaches a node other
\* than the source, with targets
C12_Witness ==
    /\ ApiQueried
    /\ ArrLen(chapi.loaded.val.down_edges) >= 2
    /\ chapi.source \in NodeIds
    /\ \E v \in NodeIds : v /= chapi.source /\ chapi.all_loaded[v] /= INF_U32
    /\ chapi.targets /= <<>>

\* C13: query_subset(source, targets, limit) has the length and order of
\* targets; entry i is query_all(source, limit)[targets[i]] when
\* 0 <= targets[i] < N and INF when targets[i] is negative or >= N.
C13_SubsetProjectsAll ==
    ApiQueried =>
        /\ DOMAIN chapi.sub_built = DOMAIN chapi.targets
        /\ \A i \in DOMAIN chapi.targets :
               chapi.sub_built[i] =
                   IF chapi.targets[i] >= 0 /\ chapi.targets[i] < n_nodes
                   THEN chapi.all_built[chapi.targets[i]]
                   ELSE INF_U32

\* a subset query with a negative, an out-of-range and a reached target
C13_Witness ==
    /\ ApiQueried
    /\ chapi.source \in NodeIds
    /\ \E i \in DOMAIN chapi.targets :
           /\ chapi.targets[i] \in NodeIds
           /\ chapi.sub_built[i] /= INF_U32
    /\ \E i \in DOMAIN chapi.targets : chapi.targets[i] < 0


-----------------------------------------------------------------------------
(* Properties of build_csr_from_arrays *)

BuildReturned == csr_build.pc = "returned"

\* input edges whose endpoints are both node ids
BuildKept ==
    {i \in DOMAIN csr_build.edge_u :
        /\ csr_build.edge_u[i] \in SeqRange(csr_build.node_ids)
        /\ csr_build.edge_v[i] \in SeqRange(csr_build.node_ids)}

\* ordinal of an external id (the last position holding it)
BuildOrd(id) ==
    CHOOSE o \in 0..(Len(csr_build.node_ids) - 1) :
        /\ csr_build.node_ids[o + 1] = id
        /\ \A p \in (o + 1)..(Len(csr_build.node_ids) - 1) : csr_build.node_ids[p + 1] /= id

\* C14: the returned indptr has length N + 1, starts at 0, is non-decreasing
\* and ends at M' = len(indices) = len(w), M' counting one directed edge per
\* kept input edge and one more when its oneway flag is 0; the destinations
\* of every row are sorted ascending and lie in [0, N).
C14_CsrWellFormed ==
    BuildReturned =>
        LET N == Len(csr_build.node_ids)
            ip == csr_build.out_indptr
            ix == csr_build.out_indices
            M == Cardinality(BuildKept)
                     + Cardinality({i \in BuildKept : csr_build.oneway[i] = 0})
        IN  /\ DOMAIN ip = 0..N
            /\ ip[0] = 0
            /\ \A u \in 0..(N - 1) : ip[u] <= ip[u + 1]
            /\ ip[N] = M
            /\ DOMAIN ix = 0..(M - 1)
            /\ DOMAIN csr_build.out_w = 0..(M - 1)
            /\ \A u \in 0..(N - 1) :
                   /\ \A e \in ip[u]..(ip[u + 1] - 2) : ix[e] <= ix[e + 1]
                   /\ \A e \in ip[u]..(ip[u + 1] - 1) : ix[e] \in 0..(N - 1)

\* a result with a row of two destinations, an empty row, a dropped edge and
\* a doubled edge
C14_Witness ==
    /\ BuildReturned
    /\ \E u \in 0..(Len(csr_build.node_ids) - 1) :
           /\ csr_build.out_indptr[u + 1] - csr_build.out_indptr[u] >= 2
           /\ csr_build.out_indices[csr_build.out_indptr[u]]
                  < csr_build.out_indices[csr_build.out_indptr[u] + 1]
    /\ \E u \in 0..(Len(csr_build.node_ids) - 1) :
           csr_build.out_indptr[u + 1] = csr_build.out_indptr[u]
    /\ \E i \in BuildKept : csr_build.oneway[i] = 0

\* number of CSR entries (u, indices[e], w[e]) equal to the triple t
BuildOutCount(t) ==
    Cardinality({e \in DOMAIN csr_build.out_indices :
                    /\ csr_build.out_indptr[t[1]] <= e
                    /\ e < csr_build.out_indptr[t[1] + 1]
                    /\ csr_build.out_indices[e] = t[2]
                    /\ csr_build.out_w[e] = t[3]})

\* number of times the input edges ask for the triple t
BuildWantCount(t) ==
    Cardinality({i \in BuildKept :
                    <<BuildOrd(csr_build.edge_u[i]), BuildOrd(csr_build.edge_v[i]),
                      csr_build.w_sec[i]>> = t})
      + Cardinality({i \in BuildKept :
                        /\ csr_build.oneway[i] = 0
                        /\ <<BuildOrd(csr_build.edge_v[i]), BuildOrd(csr_build.edge_u[i]),
                             csr_build.w_sec[i]>> = t})

\* C15: the multiset of triples (u, indices[e], w[e]) of the result equals
\* the multiset of the kept input edges, mapped to ordinals, plus the
\* reversed edge (same weight) of every kept edge whose oneway flag is 0.
C15_CsrEdgesPreserved ==
    BuildReturned =>
        LET N == Len(csr_build.node_ids) IN
        /\ \A e \in DOMAIN csr_build.out_indices :
               \E u \in 0..(N - 1) :
                   csr_build.out_indptr[u] <= e /\ e < csr_build.out_indptr[u + 1]
        /\ \A t \in (0..(N - 1)) \X (0..(N - 1)) \X BuildWeights :
               BuildOutCount(t) = BuildWantCount(t)

\* a result in which the sort moved an edge of one weight past an edge of
\* another weight
C15_Witness ==
    /\ BuildReturned
    /\ Len(csr_build.edges) >= 2
    /\ \E e \in DOMAIN csr_build.out_w :
           csr_build.out_w[e] /= csr_build.edges[e + 1][3]

-----------------------------------------------------------------------------
(* Properties of aggregate_h3_topk_precached *)

AggReturned == h3agg /= Unused /\ h3agg.pc = "returned"

\* the positions of the output rows of cell h at resolution value r_val
AggCellPos(h, r_val) ==
    {p \in DOMAIN h3agg.out : h3agg.out[p][1] = h /\ h3agg.out[p][4] = r_val}

\* the (cell, resolution value) pairs of the output
AggOutCells == {<<h3agg.out[p][1], h3agg.out[p][4]>> : p \in DOMAIN h3agg.out}

\* the slots <<node, slot>> that hold site on a node mapped to cell h
AggSlotsOf(h, r_val, site) ==
    {s \in (0..(h3agg.inp.n - 1)) \X (0..(h3agg.inp.kdim - 1)) :
        /\ h3agg.inp.a[s[1]][s[2]] = site
        /\ \E ri \in 0..(h3agg.inp.r_len - 1) :
               h3agg.inp.res_list[ri] = r_val /\ h3agg.inp.h3[s[1]][ri] = h}

AggOccurrences(h, r_val, site) ==
    {h3agg.inp.t[s[1]][s[2]] : s \in AggSlotsOf(h, r_val, site)}

\* C16: every cell of the output of aggregate_h3_topk_precached has at most
\* K rows, no anchor twice, its rows contiguous and sorted by (time, anchor),
\* and each emitted time is the minimum over the anchor's occurrences on the
\* nodes and slots of the cell
C16_CellRowsBoundedSortedMinimal ==
    AggReturned =>
        \A c \in AggOutCells :
            LET pos == AggCellPos(c[1], c[2]) IN
            /\ Cardinality(pos) <= h3agg.inp.k
            /\ \A p \in pos, q \in pos :
                   p /= q => h3agg.out[p][2] /= h3agg.out[q][2]
            /\ \A p \in pos, q \in DOMAIN h3agg.out :
                   (SetMin(pos) <= q /\ q <= p) => q \in pos
            /\ \A p \in pos, q \in pos :
                   p < q => PairLess(<<h3agg.out[p][2], h3agg.out[p][3]>>,
                                     <<h3agg.out[q][2], h3agg.out[q][3]>>)
            /\ \A p \in pos :
                   h3agg.out[p][3] = SetMin(AggOccurrences(c[1], c[2], h3agg.out[p][2]))

\* a returned call with two cells in the output, one of them full and holding
\* an anchor that occurs with two different times in the cell
C16_Witness ==
    /\ AggReturned
    /\ Cardinality(AggOutCells) >= 2
    /\ \E c \in AggOutCells :
           /\ Cardinality(AggCellPos(c[1], c[2])) = h3agg.inp.k
           /\ h3agg.inp.k >= 2
           /\ \E p \in AggCellPos(c[1], c[2]) :
                  Cardinality(AggOccurrences(c[1], c[2], h3agg.out[p][2])) >= 2

\* the valid labels <<site, ts>> of the nodes mapped to cell h of column ri
AggValidLabels(h, ri) ==
    {l \in {<<h3agg.inp.a[i][j], h3agg.inp.t[i][j]>> :
                i \in {x \in 0..(h3agg.inp.n - 1) : h3agg.inp.h3[x][ri] = h},
                j \in 0..(h3agg.inp.kdim - 1)} :
        l[1] >= 0 /\ l[2] < h3agg.inp.unreachable}

\* the plain bounded top-K: minimum time per anchor, sorted by (time, anchor),
\* the first K
AggReference(h, ri) ==
    LET valid == AggValidLabels(h, ri)
        reduced == {<<s, SetMin({l[2] : l \in {x \in valid : x[1] = s}})>> :
                       s \in {l[1] : l \in valid}}
        sorted == SortPairs(reduced)
    IN  SubSeq(sorted, 1, Min2(h3agg.inp.k, Len(sorted)))

\* the list <<site, ts>> emitted for cell h at resolution value r_val
AggEmitted(h, r_val) ==
    LET pos == AggCellPos(h, r_val) IN
    IF pos = {} THEN <<>>
    ELSE [x \in 1..Cardinality(pos) |->
             <<h3agg.out[SetMin(pos) + x - 1][2], h3agg.out[SetMin(pos) + x - 1][3]>>]

\* C17: the list emitted for every (resolution, cell) equals the plain bounded
\* top-K of the valid labels of the cell's nodes, ties at the K-th time going
\* to the smaller anchor ids
C17_EqualsReferenceTopK ==
    AggReturned =>
        \A ri \in 0..(h3agg.inp.r_len - 1), i \in 0..(h3agg.inp.n - 1) :
            h3agg.inp.h3[i][ri] /= 0 =>
                AggEmitted(h3agg.inp.h3[i][ri], h3agg.inp.res_list[ri])
                    = AggReference(h3agg.inp.h3[i][ri], ri)

\* the rows <<h3_id, site, ts, res>> of a vector of global maps
AggRowSet(globals, inp) ==
    UNION {UNION {{<<h, globals[ri][h][p][1], globals[ri][h][p][2], inp.res_list[ri]>> :
                      p \in DOMAIN globals[ri][h]} : h \in DOMAIN globals[ri]} :
              ri \in DOMAIN globals}

\* the values of threads compared: one part up to one part per node
AggThreadValues == 0..4

\* C18: the set of output rows of aggregate_h3_topk_precached is the same for
\* every value of threads
C18_RowSetIndependentOfThreads ==
    AggReturned =>
        \A thr \in AggThreadValues :
            SeqRange(h3agg.out) = AggRowSet(AggGlobals(h3agg.inp, thr), h3agg.inp)

-----------------------------------------------------------------------------
(* Properties of weakly_connected_components *)

WccReturned == wcc /= Unused /\ wcc.pc = "returned"

WccNodes == 0..(wcc.n - 1)

\* the directed edges <<u, v>> of the forward CSR
WccEdges ==
    UNION {{<<u, wcc.indices[e]>> : e \in wcc.indptr[u]..(wcc.indptr[u + 1] - 1)} :
              u \in WccNodes}

\* the nodes connected to the set S in the undirected closure of the edges E
RECURSIVE WccClosure(_, _)
WccClosure(S, E) ==
    LET more == S \cup {x[2] : x \in {y \in E : y[1] \in S}}
                  \cup {x[1] : x \in {y \in E : y[2] \in S}}
    IN  IF more = S THEN S ELSE WccClosure(more, E)

\* C19: weakly_connected_components gives every node an id in [0, C), two
\* nodes the same id iff they are connected in the undirected closure, and
\* numbers the components by ascending smallest node, node 0 having id 0
C19_ComponentsByDiscovery ==
    WccReturned =>
        \A E \in {WccEdges} :
        \A class \in {[v \in WccNodes |-> WccClosure({v}, E)]} :
        \A C \in {Cardinality({class[v] : v \in WccNodes})} :
            /\ \A v \in WccNodes : wcc.comp_id[v] \in 0..(C - 1)
            /\ \A u, v \in WccNodes :
                   (wcc.comp_id[u] = wcc.comp_id[v]) <=> (v \in class[u])
            /\ \A c \in 0..(C - 2) :
                   /\ \E v \in WccNodes : wcc.comp_id[v] = c
                   /\ \E v \in WccNodes : wcc.comp_id[v] = c + 1
                   /\ SetMin({v \in WccNodes : wcc.comp_id[v] = c})
                          < SetMin({v \in WccNodes : wcc.comp_id[v] = c + 1})
            /\ wcc.n > 0 => wcc.comp_id[0] = 0

\* a returned search with three components, one of which joins a node to a
\* smaller node through an edge that only the reverse CSR shows from there,
\* while a node between them belongs to another component
C19_Witness ==
    /\ WccReturned
    /\ \E E \in {WccEdges} :
           /\ Cardinality({WccClosure({v}, E) : v \in WccNodes}) = 3
           /\ \E u, m, v \in WccNodes :
                  /\ u < m /\ m < v
                  /\ <<v, u>> \in E /\ <<u, v>> \notin E
                  /\ wcc.comp_id[u] = wcc.comp_id[v]
                  /\ wcc.comp_id[m] /= wcc.comp_id[u]

-----------------------------------------------------------------------------
(* Properties of the target-aware early stop *)

\* the nodes named by the target array
TargetNodes == {ui \in NodeIds : is_target.val[ui] /= 0}

\* every target node has received at least one label
TargetsCovered == \A ui \in TargetNodes : chunk.labels_used[ui] > 0

\* the engine left its loop through the early stop
EarlyReturn == chunk.pc = "done" /\ chunk.remaining_targets = 0

\* C20: in single-chunk mode with a target array the engine performs no pop
\* after the step at which every target node has received a label, and on
\* the early return every target node has a populated slot 0
C20_StopsWhenTargetsCovered ==
    /\ [](EarlyReturn => \A ui \in TargetNodes : chunk.best_src_idx_out[ui * k] /= -1)
    /\ [][TargetsCovered => chunk'.pops = chunk.pops]_vars

-----------------------------------------------------------------------------
(* Properties of the sentinels of the returned arrays *)

\* C21: in every returned slot the anchor is -1 if and only if the time is
\* UNREACHABLE, for all cutoffs up to 65535 and on both paths
C21_SentinelsAgree ==
    Returned =>
        \A v \in NodeIds, j \in 0..(k - 1) :
            (RetAnchor(v, j) = -1) <=> (RetTime(v, j) = UNREACHABLE)

\* C22: a call with cutoff_overflow < cutoff_primary ends in a validation
\* error and returns no anchor/time arrays
C22_InconsistentCutoffsRejected ==
    cutoff_overflow_s < cutoff_primary_s => (api_pc /= "returned" /\ ret = None)

-----------------------------------------------------------------------------
(* Properties of the progress reports and of the pool workers *)

\* total_chunks of the call
TotalChunks == IF ShouldParallel THEN Len(Parts) ELSE 1

\* the number of chunks whose closure has completed
CompletedChunks ==
    IF ShouldParallel
    THEN Cardinality({i \in DOMAIN par.workers : par.workers[i].pc = "done"})
    ELSE IF api_pc = "returned" THEN 1 ELSE 0

\* the callback was called once per completed chunk, and once the call has
\* returned the done values are exactly 1..total_chunks, each reported once
CallsMatchChunks ==
    /\ Len(par.calls) = CompletedChunks
    /\ \A p \in DOMAIN par.calls :
           par.calls[p][2] = TotalChunks /\ par.calls[p][1] \in 1..TotalChunks
    /\ \A p, q \in DOMAIN par.calls : p /= q => par.calls[p][1] /= par.calls[q][1]
    /\ Returned => {par.calls[p][1] : p \in DOMAIN par.calls} = 1..TotalChunks

\* C23 as stated: whenever a progress callback is provided it is called
\* exactly once per completed chunk with (done, total), the done values of a
\* call being 1..total, each once, under every interleaving
C23_CallbackOncePerChunk == par.has_cb => CallsMatchChunks

\* C23 amended: the same whenever progress is on and a callback is provided
C23_CallbackOncePerChunkWhenProgress == (par.progress /\ par.has_cb) => CallsMatchChunks

\* a returned parallel call whose callback received its reports out of the
\* order of the done values
C23_Witness ==
    /\ Returned /\ ShouldParallel /\ par.progress /\ par.has_cb
    /\ Len(par.calls) = Len(Parts)
    /\ \E p \in DOMAIN par.calls : p < Len(par.calls) /\ par.calls[p][1] > par.calls[p + 1][1]

\* the global merge over the nodes node_i.. of the results
RECURSIVE MergeFrom(_, _, _)
MergeFrom(st, results, node_i) ==
    IF node_i >= n_nodes THEN st
    ELSE MergeFrom(MergeNode(st, results, node_i), results, node_i + 1)

\* the results of the parts, each computed alone, in part order
PartResults == [i \in 1..Len(Parts) |-> ChunkResult(compute_chunk(SourceSlice(Parts[i])))]

\* C24: on the parallel path the chunk results are collected in chunk order
\* and are those of the chunks run alone, the merge starts only after every
\* chunk has finished, and the returned arrays are the same under every
\* interleaving and completion order of the workers
C24_ParallelDeterministic ==
    ShouldParallel =>
        /\ par.node_i > 0 => ParAllFinished
        /\ (ParAllFinished /\ par.node_i = 0) => par.results = PartResults
        /\ Returned =>
               \E m \in {MergeFrom(EmptyStore(n_nodes, k), PartResults, 0)} :
                   ret = [best_src |-> m.best_src, time_s |-> m.time_s]

\* a returned parallel call whose workers overtook one another (the first
\* report delivered was not the first counted) and whose merge gave node 1
\* two labels
C24_Witness ==
    /\ Returned /\ ShouldParallel
    /\ par.progress /\ par.has_cb
    /\ par.calls[1][1] /= 1
    /\ k = 2
    /\ RetAnchor(1, 0) /= -1 /\ RetAnchor(1, 1) /= -1


-----------------------------------------------------------------------------
(* The engine loop of compute_chunk *)

\* every bucket of the ring is empty
AllBucketsEmpty == \A i \in DOMAIN chunk.buckets : chunk.buckets[i] = <<>>

\* the loop was left by the break of the target early stop
StoppedOnTargets ==
    /\ is_target.some
    /\ chunk.remaining_targets = 0
    /\ chunk.last_pop /= <<>>
    /\ is_target.val[chunk.last_pop[1]] /= 0

\* C25: the single-chunk engine loop is left only with active_count = 0 or
\* through the target early stop, and when it is left with active_count = 0
\* every bucket is empty: no discovered pair is left unprocessed
C25_LoopLeftDrainedOrStopped ==
    chunk.pc /= "loop" =>
        /\ chunk.pc = "done"
        /\ chunk.active_count = 0 \/ StoppedOnTargets
        /\ chunk.active_count = 0 => AllBucketsEmpty

\* the calls of SpecKbest that take the single-chunk path, the engine
\* scheduled as the one thread that runs it: a loop iteration that can be
\* taken is taken
SpecKbestFair ==
    /\ KbestInit /\ ~ShouldParallel
    /\ [][KbestNext]_vars
    /\ WF_vars(KbestNext)

\* C25, termination: under that scheduling the loop is eventually left, and
\* it is left as C25_LoopLeftDrainedOrStopped says
C25_LoopTerminates ==
    /\ <>(chunk.pc /= "loop")
    /\ []C25_LoopLeftDrainedOrStopped


-----------------------------------------------------------------------------
(* Path selection and chunking *)

PartLen(p) == p[2] - p[1]

\* the parts cut positions 0..n-1 into runs that follow one another without
\* gap or overlap, none empty, their lengths at most one apart
BalancedCover(P, n) ==
    /\ P /= <<>>
    /\ P[1][1] = 0
    /\ P[Len(P)][2] = n
    /\ \A i \in DOMAIN P : P[i][1] < P[i][2]
    /\ \A i \in DOMAIN P : i < Len(P) => P[i][2] = P[i + 1][1]
    /\ \A i, j \in DOMAIN P : PartLen(P[i]) - PartLen(P[j]) <= 1

\* the slice of source_idxs at the positions of part p
AnchorsOf(p) == [j \in 1..PartLen(p) |-> source_idxs[p[1] + j]]

SingleChunk == chunk /= Unused

\* no pair waits in a bucket behind the cursor
PairsAhead ==
    \A i \in DOMAIN chunk.buckets : chunk.buckets[i] /= <<>> => i >= chunk.cur_idx

\* the times stored at node v
StoredTimes(c, v) ==
    {c.time_s_out[v * k + j] : j \in {j \in 0..(k - 1) : c.best_src_idx_out[v * k + j] /= -1}}

\* this step pops a pair
PopStep == chunk'.pops = chunk.pops + 1

\* C27: in the single-chunk engine no pair ever waits behind the cursor
\* (every push goes to a bucket index >= the cursor), the distances of
\* successive pops are non-decreasing, the cursor moves back to a smaller
\* index only when no pair remains, and a label is recorded at a node with
\* a time >= every time already stored there
C27_PopsNonDecreasing ==
    /\ [](SingleChunk => PairsAhead)
    /\ [][(SingleChunk /\ PopStep) =>
            /\ chunk.last_pop /= <<>> => chunk'.last_pop[3] >= chunk.last_pop[3]
            /\ \A v \in NodeIds :
                   StoredTimes(chunk', v) /= StoredTimes(chunk, v) =>
                       \A t \in StoredTimes(chunk, v) : t <= chunk'.last_pop[3]]_vars
    /\ [][(SingleChunk /\ chunk'.cur_idx < chunk.cur_idx) => AllBucketsEmpty]_vars

\* a finished run that popped pairs at different distances and recorded a
\* later label at a node that already held an earlier one
C27_Witness ==
    /\ SingleChunk
    /\ chunk.pc = "done"
    /\ chunk.last_pop /= <<>> /\ chunk.last_pop[3] > 1
    /\ \E v \in NodeIds : Cardinality(StoredTimes(chunk, v)) = 2


\* C28: whenever the single-chunk engine evaluates its loop condition,
\* active_count is the number of buckets whose active flag is set and every
\* non-empty bucket has its flag set, so that active_count = 0 means that
\* all buckets are empty
C28_ActiveCountMatchesFlags ==
    (SingleChunk /\ chunk.pc = "loop") =>
        /\ chunk.active_count = Cardinality(chunk.active)
        /\ \A i \in DOMAIN chunk.buckets : chunk.buckets[i] /= <<>> => i \in chunk.active
        /\ chunk.active_count = 0 => AllBucketsEmpty

\* the loop condition is evaluated after a pop that a prune dropped before the
\* deactivation at the end of the iteration: the bucket under the cursor is
\* empty with its flag still set, while another bucket holds a pair
C28_Witness ==
    /\ SingleChunk /\ chunk.pc = "loop"
    /\ chunk.pops > 0
    /\ chunk.cur_idx \in chunk.active
    /\ BucketAt(chunk.buckets, chunk.cur_idx) = <<>>
    /\ ~AllBucketsEmpty


-----------------------------------------------------------------------------
(* Per-pair dedup and saturation prune of the engine *)

\* the label arrays and counters of a chunk
LabelStore(c) ==
    [best_src |-> c.best_src_idx_out, time_s |-> c.time_s_out,
     labels_used |-> c.labels_used, primary_count |-> c.primary_count]

\* the pair popped by this step, and its distance
PoppedKey == PairKey(chunk'.last_pop[1], chunk'.last_pop[2])

PoppedDist == chunk'.last_pop[3]

\* C29: pair_best changes only at a pop, and only at the popped pair: its
\* first pop writes the pop distance, and no later pop of the pair passes the
\* dedup: it leaves pair_best, the label store and the buckets (but for the
\* popped entry) as they were, so that a pair is recorded and relaxed at most
\* once and pair_best holds the smallest distance at which it was popped
C29_PairPassesDedupOnce ==
    [][SingleChunk =>
        IF PopStep
        THEN /\ DOMAIN chunk'.pair_best = DOMAIN chunk.pair_best \cup {PoppedKey}
             /\ \A q \in DOMAIN chunk.pair_best \ {PoppedKey} :
                    chunk'.pair_best[q] = chunk.pair_best[q]
             /\ IF PoppedKey \in DOMAIN chunk.pair_best
                THEN /\ chunk.pair_best[PoppedKey] <= PoppedDist
                     /\ chunk'.pair_best = chunk.pair_best
                     /\ LabelStore(chunk') = LabelStore(chunk)
                     /\ chunk'.buckets = BucketPop(chunk.buckets, chunk.cur_idx)
                ELSE chunk'.pair_best[PoppedKey] = PoppedDist
        ELSE chunk'.pair_best = chunk.pair_best]_vars

\* a pair discovered along two paths was popped a second time, at a larger
\* distance than the one pair_best holds for it
C29_Witness ==
    /\ SingleChunk
    /\ chunk.last_pop /= <<>>
    /\ PairKey(chunk.last_pop[1], chunk.last_pop[2]) \in DOMAIN chunk.pair_best
    /\ chunk.pair_best[PairKey(chunk.last_pop[1], chunk.last_pop[2])] < chunk.last_pop[3]


\* C30: a popped (u, anchor, d_u) that passes the per-pair dedup leaves the
\* label store as insert_label_for_node(u, anchor, d_u) makes it from the
\* store before the pop, whether or not the saturation prune dropped the pop
C30_PruneNeverSuppresses ==
    [][(/\ SingleChunk /\ PopStep
        /\ ~PairBestBlocks(chunk.pair_best, PoppedKey, PoppedDist)
        /\ chunk'.pc /= "panic") =>
            LabelStore(chunk') =
                insert_label_for_node(chunk'.last_pop[1], k, chunk'.last_pop[2], PoppedDist,
                                      chunk.best_src_idx_out, chunk.time_s_out,
                                      chunk.labels_used, chunk.primary_count,
                                      cutoff_primary_s)]_vars

\* the last pop passed the dedup at a node whose K slots all hold primary
\* labels of other anchors: the saturation prune dropped it
C30_Witness ==
    /\ SingleChunk
    /\ chunk.last_pop /= <<>>
    /\ PairKey(chunk.last_pop[1], chunk.last_pop[2]) \in DOMAIN chunk.pair_best
    /\ chunk.pair_best[PairKey(chunk.last_pop[1], chunk.last_pop[2])] = chunk.last_pop[3]
    /\ chunk.primary_count[chunk.last_pop[1]] = k
    /\ \A j \in 0..(k - 1) :
           chunk.best_src_idx_out[chunk.last_pop[1] * k + j] /= chunk.last_pop[2]


-----------------------------------------------------------------------------
(* The global merge of the parallel path *)

\* the <<anchor, time>> pairs of the populated slots of node v over all
\* chunk results
ChunkLabels(v) ==
    UNION {{<<par.results[ci].best_src[v * k + j], par.results[ci].time_s[v * k + j]>> :
               j \in {j \in 0..(k - 1) : par.results[ci].best_src[v * k + j] /= -1}} :
           ci \in DOMAIN par.results}

\* the labels of L that carry the smallest time of their anchor
MinPerAnchor(L) == {p \in L : \A q \in L : q[1] = p[1] => p[2] <= q[2]}

\* the <<anchor, time>> pairs of the populated slots of node v in the output
RetLabels(v) == {<<RetAnchor(v, j), RetTime(v, j)>> : j \in RetPopulated(v)}

\* C31: on the parallel path the merged row of every node holds the K
\* smallest times (all, if fewer) among the populated slots of the node over
\* all chunk results, each anchor with its minimum and in one slot only
C31_MergedRowsHoldKSmallest ==
    (Returned /\ ShouldParallel) =>
        \A v \in NodeIds :
            LET L == MinPerAnchor(ChunkLabels(v))
                R == RetLabels(v)
            IN  /\ R \subseteq L
                /\ \A i, j \in RetPopulated(v) : i /= j => RetAnchor(v, i) /= RetAnchor(v, j)
                /\ Cardinality(R) = Min2(k, Cardinality(L))
                /\ \A p \in L \ R, q \in R : q[2] <= p[2]


-----------------------------------------------------------------------------
(* Frame of insert_label_for_node *)

\* slots, used and primary_count of node v in the store st
NodeState(st, v) ==
    [row |-> [j \in 0..(k - 1) |-> <<st.best_src[v * k + j], st.time_s[v * k + j]>>],
     used |-> st.labels_used[v],
     primary |-> st.primary_count[v]]

\* the times above cutoff_primary stored at node v
OverflowTimes(st, v) ==
    {st.time_s[v * k + j] : j \in {j \in 0..(k - 1) : st.time_s[v * k + j] > cutoff_primary_s}}

\* the last call met a full node with an anchor the node did not hold and a
\* time above cutoff_primary
InsOverflowOnFull ==
    /\ InsCalled
    /\ InsBeforeUsed = k
    /\ ~InsAnchorWasStored
    /\ ins_last.t > cutoff_primary_s

\* C32: an insert of a not yet stored anchor with t > cutoff_primary into a
\* full node changes nothing of that node when primary_count = K, and
\* nothing when primary_count < K and t is not smaller than the largest
\* stored overflow time; no insert changes another node
C32_RejectedOverflowChangesNothing ==
    InsCalled =>
        LET v == ins_last.node
            b == ins_last.before
        IN  /\ (/\ InsOverflowOnFull
                /\ \/ b.primary_count[v] = k
                   \/ /\ b.primary_count[v] < k
                      /\ \A x \in OverflowTimes(b, v) : ins_last.t >= x) =>
                    NodeState(store, v) = NodeState(b, v)
            /\ \A u \in InsNodes \ {v} : NodeState(store, u) = NodeState(b, u)

\* a full node holding a primary and an overflow label turned away an
\* overflow candidate as late as its overflow label
C32_Witness ==
    /\ InsOverflowOnFull
    /\ k = 2
    /\ ins_last.before.primary_count[ins_last.node] = 1
    /\ ins_last.t \in OverflowTimes(ins_last.before, ins_last.node)
    /\ store = ins_last.before


-----------------------------------------------------------------------------
(* The downward index of CHGraph *)

\* the backward edges of the prepared graph that lead to u with both
\* endpoints in range
DownEdgesInto(self, u) ==
    {e \in DOMAIN self.graph.edges_bwd :
        /\ self.graph.edges_bwd[e].adj_node = u
        /\ self.graph.edges_bwd[e].base_node < node_count(self)}

\* the segment of u holds one entry (base, weight) for each of those edges
\* and nothing else; the offsets ascend and end at the length of down_edges
DownIndexExact(self) ==
    LET n == node_count(self) IN
    /\ self.down_offsets[0] = 0
    /\ \A u \in 0..(n - 1) : self.down_offsets[u] <= self.down_offsets[u + 1]
    /\ self.down_offsets[n] = ArrLen(self.down_edges)
    /\ \A u \in 0..(n - 1) :
           LET seg == self.down_offsets[u]..(self.down_offsets[u + 1] - 1)
               into == DownEdgesInto(self, u)
           IN  /\ Cardinality(seg) = Cardinality(into)
               /\ \A pos \in seg :
                      Cardinality({q \in seg : self.down_edges[q] = self.down_edges[pos]}) =
                      Cardinality({e \in into :
                          <<self.graph.edges_bwd[e].base_node, self.graph.edges_bwd[e].weight>>
                              = self.down_edges[pos]})

\* C33: the downward index of every graph that from_fast_graph32 took from
\* decoded bytes holds, in the segment of each node u, exactly one entry
\* (base, weight) per backward edge into u with endpoints in range, and
\* the offsets are non-decreasing and end at len(down_edges)
C33_DownIndexExact ==
    (chapi.pc \in {"loaded", "queried"} /\ chapi.loaded.ok) =>
        DownIndexExact(chapi.loaded.val)

-----------------------------------------------------------------------------
(* Properties of the downward sweep *)

\* ranks is a permutation of the nodes and every entry (v, w) of the
\* downward segment of u leads to a node v of lower rank
ValidHierarchy(self) ==
    LET n == node_count(self) IN
    /\ \A v \in 0..(n - 1) : self.graph.ranks[v] \in 0..(n - 1)
    /\ \A u, v \in 0..(n - 1) : self.graph.ranks[u] = self.graph.ranks[v] => u = v
    /\ \A u \in 0..(n - 1) :
           \A idx \in self.down_offsets[u]..(self.down_offsets[u + 1] - 1) :
               self.graph.ranks[self.down_edges[idx][1]] < self.graph.ranks[u]

\* the nodes the sweep has visited once qs.i nodes are done
Visited(qs, self) ==
    {v \in 0..(node_count(self) - 1) : self.graph.ranks[v] >= node_count(self) - qs.i}

\* C34: during the downward sweep of run_phast on a valid hierarchy the
\* i-th visit is to the node of rank n - 1 - i, so every node is visited
\* once in strictly descending rank; a visit lowers neither the distance of
\* the visited node nor that of a node visited before, so the distance a
\* node is relaxed from is the one run_phast returns for it.
C34_SweepDescendingFinal ==
    [][(SweepStep /\ ValidHierarchy(ch)) =>
          LET u == SweptNode(query, ch) IN
          /\ ch.graph.ranks[u] = node_count(ch) - 1 - query.i
          /\ u \notin Visited(query, ch)
          /\ Visited(query', ch) = Visited(query, ch) \cup {u}
          /\ \A v \in Visited(query', ch) : query'.dist[v] = query.dist[v]
          /\ query.dist[u] = RunPhastFrom(query, ch).dist[u]]_vars

\* the sweep, past its first visit on a valid hierarchy, is about to lower
\* the distance of a node of lower rank
C34_Witness ==
    /\ query.pc = "sweep"
    /\ query.i >= 1 /\ query.i < node_count(ch)
    /\ ValidHierarchy(ch)
    /\ LET u == SweptNode(query, ch) IN
       /\ query.dist[u] /= INF_U32
       /\ \E idx \in ch.down_offsets[u]..(ch.down_offsets[u + 1] - 1) :
              LET nd == SatAddU32(query.dist[u], ch.down_edges[idx][2]) IN
              /\ ~LtU32(query.limit, nd)
              /\ LtU32(nd, query.dist[ch.down_edges[idx][1]])

-----------------------------------------------------------------------------
(* Properties of the distance limit *)

\* the limits run_phast is compared under
PhastLimits == {U32(0), U32(1), U32(2), U32(3), U32(5), INF_U32}

\* the distances d with every entry above the limit replaced by INF
ClipToLimit(d, limit) ==
    [v \in DOMAIN d |-> IF LtU32(limit, d[v]) THEN INF_U32 ELSE d[v]]

\* C35: for every source and limit L, run_phast(source, L)[v] equals
\* run_phast(source, u32::MAX)[v] for every node v whose unlimited distance
\* is <= L and INF for every other node; hence between two limits L1 <= L2
\* every finite entry under L1 is the same under L2.
C35_LimitOnlyClips ==
    QueryDone =>
        LET unlimited == run_phast(ch, query.source, INF_U32) IN
        /\ query.dist = ClipToLimit(unlimited, query.limit)
        /\ \A L \in PhastLimits :
               run_phast(ch, query.source, L) = ClipToLimit(unlimited, L)
        /\ \A L1, L2 \in PhastLimits :
               ~LtU32(L2, L1) =>
                   LET d1 == run_phast(ch, query.source, L1)
                       d2 == run_phast(ch, query.source, L2)
                   IN  \A v \in DOMAIN d1 : d1[v] /= INF_U32 => d2[v] = d1[v]

\* a limited query returned over a hierarchy with downward edges: one node
\* within the limit other than the source, one node the unlimited query
\* reaches beyond the limit
C35_Witness ==
    /\ QueryDone
    /\ query.limit /= INF_U32
    /\ query.source \in NodeIds
    /\ ArrLen(ch.down_edges) > 0
    /\ LET unlimited == run_phast(ch, query.source, INF_U32) IN
       /\ \E v \in NodeIds :
              unlimited[v] /= INF_U32 /\ LtU32(query.limit, unlimited[v])
                  /\ query.dist[v] = INF_U32
       /\ \E v \in NodeIds :
              v /= query.source /\ query.dist[v] /= INF_U32
                  /\ query.dist[v] = unlimited[v]

-----------------------------------------------------------------------------
(* Properties of ch_build_from_csr *)

ChBuildReturned == chapi.pc \in {"build_ok", "build_failed", "build_queried"}

ChBuildSucceeded == chapi.pc \in {"build_ok", "build_queried"}

\* the positions (row, slot) of the CSR edges with a non-negative destination
CsrSlots ==
    {p \in NodeIds \X DOMAIN indices :
        indptr[p[1]] <= p[2] /\ p[2] < indptr[p[1] + 1] /\ indices[p[2]] >= 0}

\* the CSR edges with a non-negative destination, each weight raised to 1
ClampedEdges == {<<p[1], indices[p[2]], Max2(w_sec[p[2]], 1)>> : p \in CsrSlots}

\* the preparer receives one edge per slot of CsrSlots
ChBuildEdgesAsClaimed ==
    (ChBuildSucceeded /\ \A i \in DOMAIN indptr : indptr[i] >= 0) =>
        /\ Len(chapi.edges) = Cardinality(CsrSlots)
        /\ SeqRange(chapi.edges) = ClampedEdges

\* the distances are the shortest paths over the clamped weights
ChBuildDistancesAsClaimed ==
    (chapi.pc = "build_queried" /\ chapi.source \in NodeIds
         /\ \A i \in DOMAIN indptr : indptr[i] >= 0) =>
        LET d == ShortestFrom(chapi.source, InEdges(ClampedEdges)) IN
        chapi.all = [v \in NodeIds |-> AsU32(d[v])]

ChBuildFailedCleanly == chapi.pc = "build_failed" /\ ch = Unused

\* the error returns the code has: no indptr, lengths that differ, the end
\* indptr[u + 1] of a row beyond the indices
ChBuildErrorsOnRowEnds ==
    (/\ ChBuildReturned
     /\ \/ ArrLen(indptr) = 0
        \/ ArrLen(indices) /= ArrLen(w_sec)
        \/ \E u \in NodeIds : indptr[u + 1] > ArrLen(indices)) =>
        ChBuildFailedCleanly

\* C36: ch_build_from_csr passes to the preparer exactly the CSR edges with
\* non-negative destination, each with weight max(w, 1), so a zero weight
\* counts as 1 and the query distances are the shortest paths over these
\* weights; it returns a validation error, building nothing, when indptr is
\* empty, when indices and w_sec differ in length, or when an indptr entry
\* exceeds len(indices).
C36_BuildInputAndValidation ==
    /\ ChBuildEdgesAsClaimed
    /\ ChBuildDistancesAsClaimed
    /\ (/\ ChBuildReturned
        /\ \/ ArrLen(indptr) = 0
           \/ ArrLen(indices) /= ArrLen(w_sec)
           \/ \E i \in DOMAIN indptr : indptr[i] > ArrLen(indices)) =>
           ChBuildFailedCleanly

-----------------------------------------------------------------------------
(* Properties of the rows aggregate_h3_topk_precached emits *)

\* the columns of h3_ids whose resolution is r_val
AggColumnsOf(r_val) ==
    {ri \in 0..(h3agg.inp.r_len - 1) : h3agg.inp.res_list[ri] = r_val}

\* the cells <<h, ri>> the input maps a node to, h3 id 0 included
AggInputCells ==
    {<<h3agg.inp.h3[i][ri], ri>> :
         i \in 0..(h3agg.inp.n - 1), ri \in 0..(h3agg.inp.r_len - 1)}

\* C37: aggregate_h3_topk_precached emits no row with h3_id = 0, and the
\* anchor and time of every emitted row are a valid label (anchor >= 0, time
\* < unreachable) of a node mapped to the row's cell at the row's resolution;
\* so a cell none of whose nodes carries a valid label has no row.
C37_RowsFromValidLabels ==
    AggReturned =>
        /\ \A p \in DOMAIN h3agg.out :
               /\ h3agg.out[p][1] /= 0
               /\ \E ri \in AggColumnsOf(h3agg.out[p][4]) :
                      <<h3agg.out[p][2], h3agg.out[p][3]>>
                          \in AggValidLabels(h3agg.out[p][1], ri)
        /\ \A c \in AggInputCells :
               AggValidLabels(c[1], c[2]) = {} =>
                   \A p \in DOMAIN h3agg.out :
                       ~(h3agg.out[p][1] = c[1]
                             /\ h3agg.out[p][4] = h3agg.inp.res_list[c[2]])

\* a returned call with rows in the output, a node with a valid label whose
\* h3 id is 0, and a cell other than 0 whose nodes carry no valid label
C37_Witness ==
    /\ AggReturned
    /\ h3agg.out /= <<>>
    /\ \E c \in AggInputCells : c[1] = 0 /\ AggValidLabels(0, c[2]) /= {}
    /\ \E c \in AggInputCells : c[1] /= 0 /\ AggValidLabels(c[1], c[2]) = {}

-----------------------------------------------------------------------------
(* Properties of the heap-based kbest_multisource_csr *)

HeapReturned == api_pc = "heap_returned"

\* the slots <<src, time>> of the row of node v in the returned arrays
HeapRow(v) == [j \in 0..(k - 1) |-> <<ret.val.best_src[v * k + j], ret.val.time_s[v * k + j]>>]

HeapRowSorted(v) ==
    \A i, j \in 0..(k - 1) :
        i < j =>
            /\ HeapRow(v)[i][2] <= HeapRow(v)[j][2]
            /\ HeapRow(v)[i][1] = -1 => HeapRow(v)[j] = <<-1, UNREACHABLE>>
            /\ (HeapRow(v)[i][1] = -1) = (HeapRow(v)[i][2] = UNREACHABLE)
            /\ (HeapRow(v)[j][1] = -1) = (HeapRow(v)[j][2] = UNREACHABLE)

\* every row is sorted by time with the empty slots at its tail
HeapRowsSorted == HeapReturned => \A v \in NodeIds : HeapRowSorted(v)

\* C38: in the output of the heap-based kbest_multisource_csr every node
\* row is sorted ascending by time with empty slots (-1, 65535) only at the
\* tail, and no source index appears in more than one slot of a row.
C38_HeapRowsSortedNoDuplicate ==
    HeapReturned =>
        \A v \in NodeIds :
            /\ HeapRowSorted(v)
            /\ \A i, j \in 0..(k - 1) :
                   (i /= j /\ HeapRow(v)[i][1] /= -1) =>
                       HeapRow(v)[i][1] /= HeapRow(v)[j][1]

=============================================================================
